---- MODULE Spec2Model ----
(***************************************************************************)
(* A model of the sync core of homemade/fez:                               *)
(*   - the streak / split-total extensions (ApplyFundraiserExtensions),    *)
(*   - the concurrent fan-out fetchers and mappers,                        *)
(*   - the campaign cache (CachedFundraisingCampaign).                     *)
(* Strings are sequences of one-character strings, so that formatting and  *)
(* parsing of the streak state are computed, not assumed.                  *)
(***************************************************************************)
EXTENDS Integers, Sequences, FiniteSets, TLC

VARIABLES
    \* ---- extensions (streaks and split exercise totals)
    extConfig,           \* FundraiserExtensionsConfig
    campaignDefault,     \* the campaign's page default holding the `from` timestamp
    page,                \* the fields of the fundraising page stored upstream
    extPc,               \* "idle" | "applied" | "failed"
    exerciseLogMaxDays,  \* local of ApplyFundraiserExtensions (-1: not computed)
    donationMaxDays,     \* local of ApplyFundraiserExtensions (-1: not computed)
    now,                 \* time.Now() of the last call, in hours
    patch,               \* the patch document: a sequence of <<mapping, value>>
    extRound,            \* number of completed apply/update rounds
    \* ---- fan-out fetches
    fanOp,               \* the operation in progress
    fanCfg,              \* [logs, donations: BOOLEAN, members: Nat]
    mainPc,              \* position of the calling goroutine
    wg,                  \* the WaitGroup counter
    wpc,                 \* position of each worker goroutine
    fetchErr,            \* outcome of each worker's fetch: "ok" | "fail" | "none"
    slotErr,             \* per-worker error variables (errPage, errs[i], ...)
    slotData,            \* per-worker result variables (result.Page, pages[i], ...)
    errs,                \* the shared error slice of the append-based mappers
    wlocal,              \* each worker's read of the shared slice header
    fanRet,              \* what the operation returned
    team,                \* the team mapper running the fan-out: its roster and progress
    cancelled,           \* whether the caller's context has been cancelled
    wctx,                \* the context each sub-fetch was issued with
    \* ---- campaign cache
    cacheImpl,                   \* "raisely" | "ortto"
    cachedFundraisingCampaigns,  \* sync.Map keyed by campaign id
    cachedFundraisingCampaign,   \* the single package-level pointer
    cpc,                         \* position of each caller
    creq,                        \* each caller's arguments
    cfetch,                      \* each caller's upstream fetch: its number and outcome
    cret,                        \* each caller's return value
    upstreamVer,                 \* number of upstream fetches issued so far
    \* ---- the run of a list of entries
    streakPc,            \* position in the computation of the run
    streakEntries,       \* the timestamps of the entries included for the streak
    streakDays,          \* the keys of the EpochDays computed from them
    streakMaxDays,       \* the run computed from the EpochDays
    \* ---- field transforms of a mapper
    tPc,                 \* position of the mapper
    tConfig,             \* the transform tables, skip mode, page defaults
    tBatch,              \* the records to transform: one fundraiser or the members of a team
    tIdx,                \* index of the record being processed
    tFields,             \* Destination.GetFields() of the record being processed
    tPending,            \* entries of the transform table the range loop has not visited
    tResult,             \* the records appended to the request
    tErr,                \* the error returned
    tUpstream,           \* what the donations endpoint answers
    tFetches,            \* donation fetches issued so far
    \* ---- the field mappings of a fundraiser
    mapPc,               \* position: the config read, expanded, the record mapped
    mappingConfig,       \* Config.FundraiserFieldMappings: Builtin and Custom
    mapSource,           \* the source document: path -> JSON value
    mapDestination,      \* the fields of the destination record
    \* ---- the fetch of the pages of a team's members
    membersImpl,         \* which fan-out over team.TeamMembers runs
    teamMembers,         \* team.TeamMembers: the roster, a list of member ids
    membersMain,         \* position of the calling goroutine
    membersWg,           \* the WaitGroup counter
    memberPc,            \* position of each member's goroutine
    memberPage,          \* p: the page each goroutine fetched
    memberLocal,         \* the slice header a goroutine read before it appends
    pages,               \* the shared result: one slice for all goroutines
    memberErrs,          \* the shared errors
    membersRet           \* what the fan-out hands to its caller

extVars == <<extConfig, campaignDefault, page, extPc, exerciseLogMaxDays,
             donationMaxDays, now, patch, extRound>>
fanVars == <<fanOp, fanCfg, mainPc, wg, wpc, fetchErr, slotErr, slotData,
             errs, wlocal, fanRet, team, cancelled, wctx>>
cacheVars == <<cacheImpl, cachedFundraisingCampaigns, cachedFundraisingCampaign,
               cpc, creq, cfetch, cret, upstreamVer>>
streakVars == <<streakPc, streakEntries, streakDays, streakMaxDays>>
transformVars == <<tPc, tConfig, tBatch, tIdx, tFields, tPending, tResult, tErr,
                   tUpstream, tFetches>>
mappingVars == <<mapPc, mappingConfig, mapSource, mapDestination>>
memberVars == <<membersImpl, teamMembers, membersMain, membersWg, memberPc, memberPage,
                memberLocal, pages, memberErrs, membersRet>>
vars == <<extVars, fanVars, cacheVars, streakVars, transformVars, mappingVars, memberVars>>

-----------------------------------------------------------------------------
(* Bounds of the model *)

\* entries are observed over this many calendar days
MaxDay == 6
\* exercise-log entries are observed over this many calendar days
MaxLogDay == 2
\* the first observed calendar day (day-epoch); epoch 0 is where unparseable
\* timestamps are bucketed
BaseDay == 2
\* apply/update rounds per page
MaxRounds == 2
\* the largest exercise total
MaxTotal == 2
\* roster size of a team
MaxMembers == 2
\* concurrent callers of the campaign cache
MaxCallers == 2
\* upstream campaign fetches issued
MaxFetches == 2

(* Program constants *)
EpochDaySeconds == 86400
WindowHours == 24
PadWidth == 3

-----------------------------------------------------------------------------
(* Strings *)

Digits == <<"0", "1", "2", "3", "4", "5", "6", "7", "8", "9">>

IsDigit(c) == \E i \in 1..10 : Digits[i] = c

DigitVal(c) == (CHOOSE i \in 1..10 : Digits[i] = c) - 1

RECURSIVE Itoa(_)
Itoa(n) == IF n < 10 THEN <<Digits[n + 1]>>
           ELSE Itoa(n \div 10) \o <<Digits[(n % 10) + 1]>>

RECURSIVE PadZero(_, _)
PadZero(s, width) == IF Len(s) >= width THEN s ELSE PadZero(<<"0">> \o s, width)

\* a token written without zero padding
Sprintf03d_Unpadded(d) == Itoa(d)

\* fmt.Sprintf("%03d", d)
Sprintf03d(d) == IF d < 0 THEN <<"-">> \o PadZero(Itoa(-d), PadWidth - 1)
                 ELSE PadZero(Itoa(d), PadWidth)

RECURSIVE DigitsValue(_)
DigitsValue(s) == IF s = <<>> THEN 0
                  ELSE 10 * DigitsValue(SubSeq(s, 1, Len(s) - 1)) + DigitVal(s[Len(s)])

\* strconv.Atoi: an optional sign followed by one or more decimal digits
Atoi(s) ==
    LET signed == s /= <<>> /\ s[1] \in {"+", "-"}
        body   == IF signed THEN Tail(s) ELSE s
        ok     == body /= <<>> /\ \A i \in 1..Len(body) : IsDigit(body[i])
    IN  [ok  |-> ok,
         val |-> IF ~ok THEN 0
                 ELSE IF signed /\ s[1] = "-" THEN 0 - DigitsValue(body)
                 ELSE DigitsValue(body)]

\* strings.Split(value, "|")
RECURSIVE Split(_)
Split(s) ==
    IF \A i \in 1..Len(s) : s[i] /= "|" THEN <<s>>
    ELSE LET k == CHOOSE i \in 1..Len(s) :
                      s[i] = "|" /\ \A j \in 1..(i - 1) : s[j] /= "|"
         IN  <<SubSeq(s, 1, k - 1)>> \o Split(SubSeq(s, k + 1, Len(s)))

Contains(seq, x) == \E i \in 1..Len(seq) : seq[i] = x

Range(seq) == {seq[i] : i \in 1..Len(seq)}

RECURSIVE SetMax(_)
SetMax(S) == LET x == CHOOSE x \in S : TRUE
             IN  IF S = {x} THEN x
                 ELSE LET m == SetMax(S \ {x}) IN IF x > m THEN x ELSE m

\* slices.Max
SlicesMax(seq) == SetMax(Range(seq))

-----------------------------------------------------------------------------
(* Streak state *)

RECURSIVE ParseTokens(_)
ParseTokens(tokens) ==
    IF tokens = <<>> THEN <<>>
    ELSE LET a == Atoi(Head(tokens))
         IN  (IF a.ok THEN <<a.val>> ELSE <<>>) \o ParseTokens(Tail(tokens))

CurrentDaysForStreak(value) ==
    IF value = <<>> THEN <<>> ELSE ParseTokens(Split(value))

RECURSIVE MissingDays(_, _)
MissingDays(days, current) ==
    IF days = <<>> THEN <<>>
    ELSE (IF ~Contains(current, Head(days)) THEN <<Head(days)>> ELSE <<>>)
         \o MissingDays(Tail(days), current)

\* an append that does not compare the threshold with the run length
RECURSIVE AppendDays_IgnoreRun(_, _, _)
AppendDays_IgnoreRun(result, missing, max) ==
    IF missing = <<>> THEN result
    ELSE LET d == Head(missing)
             r == IF result = <<>> THEN Sprintf03d(d)
                  ELSE result \o <<"|">> \o Sprintf03d(d)
         IN  AppendDays_IgnoreRun(r, Tail(missing), max)

\* an append that leaves out the threshold equal to the run length
RECURSIVE AppendDays_BelowRun(_, _, _)
AppendDays_BelowRun(result, missing, max) ==
    IF missing = <<>> THEN result
    ELSE LET d == Head(missing)
             r == IF max > d
                  THEN IF result = <<>> THEN Sprintf03d(d)
                       ELSE result \o <<"|">> \o Sprintf03d(d)
                  ELSE result
         IN  AppendDays_BelowRun(r, Tail(missing), max)

RECURSIVE AppendDays(_, _, _)
AppendDays(result, missing, max) ==
    IF missing = <<>> THEN result
    ELSE LET d == Head(missing)
             r == IF max >= d
                  THEN IF result = <<>> THEN Sprintf03d(d)
                       ELSE result \o <<"|">> \o Sprintf03d(d)
                  ELSE result
         IN  AppendDays(r, Tail(missing), max)

\* a recomputation that rebuilds the value from the configured thresholds
AddMissingDaysForStreak_Rebuild(max, days, value) ==
    IF max < 1 THEN value ELSE AppendDays(<<>>, days, max)

AddMissingDaysForStreak(max, days, value) ==
    IF max < 1 THEN value
    ELSE LET current == CurrentDaysForStreak(value)
             missing == IF Len(current) < 1 THEN days
                        ELSE MissingDays(days, current)
         IN  IF Len(missing) < 1 THEN value
             ELSE AppendDays(value, missing, max)

-----------------------------------------------------------------------------
(* Timestamps: the result of time.Parse(time.RFC3339, s) for a string s *)

SecondsIntoDay == 11378

NoTime == [set |-> FALSE, ok |-> FALSE, unix |-> 0]

BadTime == [set |-> TRUE, ok |-> FALSE, unix |-> 0]

TimeOnDay(d) == [set |-> TRUE, ok |-> TRUE, unix |-> d * EpochDaySeconds + SecondsIntoDay]

StartOfDay(d) == [set |-> TRUE, ok |-> TRUE, unix |-> d * EpochDaySeconds]

(* Entries *)

ExerciseLogTimestampForStreak(e) == e.date

\* an inclusion test that counts swimming only, whatever the filter lists
ExerciseLogIncludeForStreak_SwimmingOnly(e, config) ==
    e.distance >= 1 /\ e.activity = "SWIMMING"

ExerciseLogIncludeForStreak(e, config) ==
    LET a  == config.activity
        t2 == ExerciseLogTimestampForStreak(e)
    IN  IF e.distance < 1 THEN FALSE
        ELSE IF Len(a.filter) > 0 /\ ~Contains(a.filter, e.activity) THEN FALSE
        ELSE IF a.from.set /\ (~a.from.ok \/ ~t2.ok \/ t2.unix < a.from.unix) THEN FALSE
        ELSE IF a.to.set /\ (~a.to.ok \/ ~t2.ok \/ t2.unix > a.to.unix) THEN FALSE
        ELSE TRUE

DonationIncludeForStreak(d, config) == d.amount > 0

DonationTimestampForStreak(d) == IF d.type = "OFFLINE" THEN d.date ELSE d.createdAt

\* the keys of EpochDays.Entries; the bucketed strings are never read
CalcDaysForStreakFromEntries(entries) ==
    {IF t.ok THEN t.unix \div EpochDaySeconds ELSE 0 : t \in entries}

FirstDay(e) == IF Cardinality(e) < 1 THEN 0
               ELSE CHOOSE d \in e : \A x \in e : d <= x

LastDay(e) == IF Cardinality(e) < 1 THEN 0
              ELSE CHOOSE d \in e : \A x \in e : d >= x

RECURSIVE ConsecutiveLoop(_, _, _, _, _)
ConsecutiveLoop(e, i, last, current, max) ==
    IF i > last THEN max
    ELSE LET c == IF i \in e THEN current + 1 ELSE 0
             m == IF c > max THEN c ELSE max
         IN  ConsecutiveLoop(e, i + 1, last, c, m)

\* a count of the populated days, which no gap resets
MaxConsecutiveDays_NoReset(e) == Cardinality(e)

MaxConsecutiveDays(e) == ConsecutiveLoop(e, FirstDay(e), LastDay(e), 0, 0)

-----------------------------------------------------------------------------
(* The page and the patch document *)

ActivityMapping == "activityStreaksAwarded"
DonationMapping == "donationStreaksAwarded"
BeforeMapping == "challenge_training_total"
FromMapping == "challenge_total"

\* Source.StringForPath / Source.IntForPath: an absent path reads as "" / 0
StringForPath(p, path) == p[path]
IntForPath(p, path) == p[path]

\* sjson.Set(result, "data." + path, value)
SjsonSet(result, path, value) ==
    IF \E i \in 1..Len(result) : result[i][1] = path
    THEN [i \in 1..Len(result) |->
            IF result[i][1] = path THEN <<path, value>> ELSE result[i]]
    ELSE Append(result, <<path, value>>)

PatchHas(result, path) == \E i \in 1..Len(result) : result[i][1] = path

PatchValue(result, path) ==
    result[CHOOSE i \in 1..Len(result) : result[i][1] = path][2]

MaxConfiguredDaysForActivityStreak(config) ==
    IF Len(config.activity.days) < 1 THEN 0 ELSE SlicesMax(config.activity.days)

MaxCurrentDaysForActivityStreak(config, p) ==
    IF Len(config.activity.days) < 1 THEN 0
    ELSE LET days == CurrentDaysForStreak(StringForPath(p, config.activity.mapping))
         IN  IF Len(days) < 1 THEN 0 ELSE SlicesMax(days)

MaxConfiguredDaysForDonationStreak(config) ==
    IF Len(config.donation.days) < 1 THEN 0 ELSE SlicesMax(config.donation.days)

MaxCurrentDaysForDonationStreak(config, p) ==
    IF Len(config.donation.days) < 1 THEN 0
    ELSE LET days == CurrentDaysForStreak(StringForPath(p, config.donation.mapping))
         IN  IF Len(days) < 1 THEN 0 ELSE SlicesMax(days)

HasSplitExerciseTotals(config) ==
    config.split.from /= "" /\ Len(config.split.mappings) = 2

-----------------------------------------------------------------------------
(* ApplyFundraiserExtensions *)

ZeroTime == -1

\* the `from` timestamp, in hours: the loop over Campaign.FundraisingPageDefaults
RECURSIVE FromTimestamp(_, _, _)
FromTimestamp(defaults, label, acc) ==
    IF defaults = <<>> THEN acc
    ELSE LET d == Head(defaults)
         IN  IF d.label = label
             THEN IF d.value.ok
                  THEN FromTimestamp(Tail(defaults), label, [err |-> FALSE, hour |-> d.value.hour])
                  ELSE [err |-> TRUE, hour |-> ZeroTime]
             ELSE FromTimestamp(Tail(defaults), label, acc)

\* one streak block: recompute only while the recorded maximum is below the
\* configured maximum, and patch only when the run exceeds the recorded maximum
StreakRun(currentMax, configuredMax, entries) ==
    IF currentMax < configuredMax
    THEN MaxConsecutiveDays(CalcDaysForStreakFromEntries(entries))
    ELSE -1

\* a streak block that sets the field whether or not the value changed
StreakPatch_AlwaysSet(result, currentMax, configuredMax, runMax, mapping, days, p) ==
    IF currentMax < configuredMax /\ currentMax < runMax
    THEN SjsonSet(result, mapping,
                  AddMissingDaysForStreak(runMax, days, StringForPath(p, mapping)))
    ELSE result

StreakPatch(result, currentMax, configuredMax, runMax, mapping, days, p) ==
    IF currentMax < configuredMax /\ currentMax < runMax
    THEN LET currentValue == StringForPath(p, mapping)
             newValue     == AddMissingDaysForStreak(runMax, days, currentValue)
         IN  IF currentValue /= newValue THEN SjsonSet(result, mapping, newValue)
             ELSE result
    ELSE result

\* a guard that lets a smaller total through only inside the 24 hour window
BeforeTotalWriteAllowed_WindowOnly(exerciseTotal, beforeCurrent, t, fromHour) ==
    \/ exerciseTotal > beforeCurrent
    \/ (t + WindowHours > fromHour /\ t - WindowHours < fromHour)

\* the guard of the write of the `before` total
BeforeTotalWriteAllowed(exerciseTotal, beforeCurrent, t, fromHour) ==
    \/ exerciseTotal > beforeCurrent
    \/ t + WindowHours > fromHour
    \/ t - WindowHours < fromHour

\* a comparison that takes every call to be before the start
NowBefore_Always(t, fromHour) == TRUE

\* now.Before(fromTimestamp)
NowBefore(t, fromHour) == t < fromHour

SplitPatch(result, config, defaults, p, t) ==
    IF ~HasSplitExerciseTotals(config) THEN [result |-> result, err |-> FALSE]
    ELSE LET from          == FromTimestamp(defaults, config.split.from,
                                            [err |-> FALSE, hour |-> ZeroTime])
             beforeMapping == config.split.mappings[1]
             fromMapping   == config.split.mappings[2]
             exerciseTotal == IntForPath(p, "exerciseTotal")
             beforeCurrent == IntForPath(p, beforeMapping)
             fromCurrent   == IntForPath(p, fromMapping)
         IN  IF from.err THEN [result |-> result, err |-> TRUE]
             ELSE IF NowBefore(t, from.hour)
             THEN IF exerciseTotal /= beforeCurrent
                     /\ BeforeTotalWriteAllowed(exerciseTotal, beforeCurrent, t, from.hour)
                  THEN [result |-> SjsonSet(result, beforeMapping, exerciseTotal), err |-> FALSE]
                  ELSE [result |-> result, err |-> FALSE]
             ELSE IF exerciseTotal /= fromCurrent
                  THEN [result |-> SjsonSet(result, fromMapping, exerciseTotal), err |-> FALSE]
                  ELSE [result |-> result, err |-> FALSE]

IncludedLogs(config, exerciselogs) ==
    {ExerciseLogTimestampForStreak(el) :
        el \in {e \in exerciselogs : ExerciseLogIncludeForStreak(e, config)}}

IncludedDonations(config, donations) ==
    {DonationTimestampForStreak(d) :
        d \in {e \in donations : DonationIncludeForStreak(e, config)}}

ApplyFundraiserExtensions(exerciselogs, donations, t, total) ==
    /\ extPc = "idle"
    /\ extRound < MaxRounds
    /\ LET p       == [page EXCEPT !["exerciseTotal"] = total]
           config  == extConfig
           confAct == MaxConfiguredDaysForActivityStreak(config)
           curAct  == MaxCurrentDaysForActivityStreak(config, p)
           runAct  == StreakRun(curAct, confAct, IncludedLogs(config, exerciselogs))
           r1      == StreakPatch(<<>>, curAct, confAct, runAct,
                                  config.activity.mapping, config.activity.days, p)
           confDon == MaxConfiguredDaysForDonationStreak(config)
           curDon  == MaxCurrentDaysForDonationStreak(config, p)
           runDon  == StreakRun(curDon, confDon, IncludedDonations(config, donations))
           r2      == StreakPatch(r1, curDon, confDon, runDon,
                                  config.donation.mapping, config.donation.days, p)
           r3      == SplitPatch(r2, config, campaignDefault, p, t)
       IN  /\ page' = p
           /\ exerciseLogMaxDays' = runAct
           /\ donationMaxDays' = runDon
           /\ patch' = r3.result
           /\ extPc' = IF r3.err THEN "failed" ELSE "applied"
    /\ now' = t
    /\ UNCHANGED <<extConfig, campaignDefault, extRound>>
    /\ UNCHANGED <<fanVars, cacheVars, streakVars, transformVars, mappingVars, memberVars>>

\* the patch is sent upstream with partial=true: the patched fields are stored
RECURSIVE MergePatch(_, _)
MergePatch(p, result) ==
    IF result = <<>> THEN p
    ELSE MergePatch([p EXCEPT ![Head(result)[1]] = Head(result)[2]], Tail(result))

UpdateRaiselyData ==
    /\ extPc = "applied"
    /\ page' = MergePatch(page, patch)
    /\ extPc' = "idle"
    /\ extRound' = extRound + 1
    /\ UNCHANGED <<extConfig, campaignDefault, exerciseLogMaxDays, donationMaxDays,
                   now, patch>>
    /\ UNCHANGED <<fanVars, cacheVars, streakVars, transformVars, mappingVars, memberVars>>

-----------------------------------------------------------------------------
(* Inputs of the extensions *)

\* the hour of the configured start ("Challenge Start")
FromHour == 50

Str3 == <<"0", "0", "3">>
Str5 == <<"0", "0", "5">>

\* values the streak field of a page may already hold
StoredValues ==
    { <<>>, Str3, Str5, Str5 \o <<"|">> \o Str3,
      <<"3">>, <<"x">>, Str3 \o <<"|">> \o <<"x">>, <<"0", "0", "2">>,
      <<"0", "1", "0">> }

StoredActivityValues == { <<>>, <<"0", "0", "1">> }

NoSplit == [from |-> "", mappings |-> <<>>]

ChallengeSplit == [from |-> "Challenge Start",
                   mappings |-> <<BeforeMapping, FromMapping>>]

ActivityConfig(days) ==
    [from |-> StartOfDay(BaseDay), to |-> StartOfDay(BaseDay + MaxLogDay),
     filter |-> <<"OTHER", "SWIMMING">>, days |-> days, mapping |-> ActivityMapping]

DonationConfig(days) == [days |-> days, mapping |-> DonationMapping]

StreakConfigs ==
    { [activity |-> ActivityConfig(<<>>), donation |-> DonationConfig(d), split |-> NoSplit] :
        d \in { <<3, 5>>, <<5, 3>>, <<2, 3, 5>>, <<3, 5, 7>> } }
    \cup
    { [activity |-> ActivityConfig(<<1, 2>>), donation |-> DonationConfig(<<3, 5>>),
       split |-> NoSplit] }

\* testFundraiserExtensionsConfig: thresholds 10, 15 and 20, the window from
\* the 1st to the 31st of the month, the filter OTHER and SWIMMING
TestConfig ==
    [activity |-> [from |-> StartOfDay(1), to |-> StartOfDay(31),
                   filter |-> <<"OTHER", "SWIMMING">>, days |-> <<10, 15, 20>>,
                   mapping |-> ActivityMapping],
     donation |-> DonationConfig(<<3, 5>>),
     split |-> NoSplit]

SplitConfigs ==
    { [activity |-> ActivityConfig(<<>>), donation |-> DonationConfig(d),
       split |-> ChallengeSplit] : d \in { <<>>, <<3, 5>> } }

Fields == {ActivityMapping, DonationMapping, BeforeMapping, FromMapping, "exerciseTotal"}

Page(activity, donation, before, from) ==
    [f \in Fields |->
        CASE f = ActivityMapping -> activity
          [] f = DonationMapping -> donation
          [] f = BeforeMapping -> before
          [] f = FromMapping -> from
          [] OTHER -> 0]

Totals == 0..MaxTotal

\* `now` relative to the configured start, in hours
NowOffsets == {-48, -25, -24, -23, 0, 23, 24, 25, 48}

Hours == {FromHour + o : o \in NowOffsets}

CampaignDefaults ==
    { <<>>,
      <<[label |-> "Challenge Start", value |-> [ok |-> TRUE, hour |-> FromHour]]>>,
      <<[label |-> "Challenge Start", value |-> [ok |-> FALSE, hour |-> 0]]>>,
      <<[label |-> "Challenge End", value |-> [ok |-> TRUE, hour |-> 0]],
        [label |-> "Challenge Start", value |-> [ok |-> TRUE, hour |-> FromHour]]>> }

DonationDays == BaseDay..(BaseDay + MaxDay - 1)

OnlineDonation(d, amount) ==
    [createdAt |-> TimeOnDay(d), date |-> NoTime, type |-> "ONLINE", amount |-> amount]

OfflineDonation(d, amount) ==
    [createdAt |-> TimeOnDay(BaseDay), date |-> TimeOnDay(d), type |-> "OFFLINE",
     amount |-> amount]

UnparseableDonation ==
    [createdAt |-> BadTime, date |-> NoTime, type |-> "ONLINE", amount |-> 1]

DonationsOn(S) == {OnlineDonation(d, 1) : d \in S}

\* donations on every day, on no day, and on every day but the second
FewDonationInputs ==
    { DonationsOn(DonationDays), {}, DonationsOn(DonationDays \ {BaseDay + 1}) }

\* donations on any set of days; and a few lists with a donation of no amount, an
\* offline donation or a donation with an unparseable timestamp
DonationInputs ==
    { DonationsOn(S) : S \in SUBSET DonationDays }
    \cup
    { D \cup extra :
        D \in FewDonationInputs,
        extra \in { {OnlineDonation(BaseDay, 0)}, {OfflineDonation(BaseDay + 1, 1)},
                    {UnparseableDonation} } }

LogDays == BaseDay..(BaseDay + MaxLogDay - 1)

ExerciseLog(activity, d, distance) ==
    [activity |-> activity, date |-> TimeOnDay(d), distance |-> distance]

LogEntry(d, kind) ==
    IF kind = "nodistance" THEN ExerciseLog("SWIMMING", d, 0) ELSE ExerciseLog(kind, d, 1)

\* per day: no entry, a counted entry, an entry of a filtered activity, or an
\* entry without distance
ExerciseLogInputs ==
    { {LogEntry(d, k[d]) : d \in {x \in LogDays : k[x] /= "none"}} :
        k \in [LogDays -> {"none", "SWIMMING", "WALKING", "nodistance"}] }

\* the exercise logs of TestFundraiserExtensions_AllStreaks: an entry on each
\* of the days 1 to 20, swimming except on day 10 and day 20
TestExerciseLogs(other) ==
    { ExerciseLog(IF d \in {10, 20} THEN other ELSE "SWIMMING", d, 1) : d \in 1..20 }

\* the logs of the test, and the same logs with the two entries of an activity
\* that the filter does not list
TestLogInputs == { TestExerciseLogs("OTHER"), TestExerciseLogs("WALKING") }

-----------------------------------------------------------------------------
(* The specification of the extensions *)

\* a fan-out that no team mapper is running
NoTeam == [caller |-> "none", roster |-> 0, next |-> 0]

FanIdle ==
    /\ fanOp = "none" /\ fanCfg = [logs |-> FALSE, donations |-> FALSE, members |-> 0]
    /\ mainPc = "idle" /\ wg = 0 /\ wpc = <<>> /\ fetchErr = <<>>
    /\ slotErr = <<>> /\ slotData = <<>> /\ errs = <<>> /\ wlocal = <<>>
    /\ fanRet = [data |-> <<>>, err |-> <<>>]
    /\ team = NoTeam
    /\ cancelled = FALSE /\ wctx = <<>>

MembersIdle ==
    /\ membersImpl = "none" /\ teamMembers = <<>> /\ membersMain = "idle" /\ membersWg = 0
    /\ memberPc = <<>> /\ memberPage = <<>> /\ memberLocal = <<>> /\ pages = <<>>
    /\ memberErrs = <<>> /\ membersRet = <<>>

MappingIdle ==
    /\ mapPc = "idle" /\ mappingConfig = <<>> /\ mapSource = <<>> /\ mapDestination = <<>>

TransformIdle ==
    /\ tPc = "idle" /\ tConfig = <<>> /\ tBatch = <<>> /\ tIdx = 0 /\ tFields = <<>>
    /\ tPending = {} /\ tResult = <<>> /\ tErr = <<>> /\ tUpstream = <<>> /\ tFetches = 0

StreakIdle ==
    /\ streakPc = "idle" /\ streakEntries = {} /\ streakDays = {} /\ streakMaxDays = 0

\* the nil *FundraisingCampaign
NilCampaign == [id |-> "nil", ver |-> 0]

CacheIdle ==
    /\ cacheImpl = "none" /\ cachedFundraisingCampaigns = <<>>
    /\ cachedFundraisingCampaign = NilCampaign
    /\ cpc = <<>> /\ creq = <<>> /\ cfetch = <<>> /\ cret = <<>> /\ upstreamVer = 0

\* fields the handler does not read under the configuration start empty
StoredActivityValuesFor(config) ==
    IF Len(config.activity.days) > 0 THEN StoredActivityValues ELSE { <<>> }

ExtInit ==
    /\ \/ /\ extConfig \in StreakConfigs
          /\ campaignDefault = <<>>
          /\ \E a \in StoredActivityValuesFor(extConfig), d \in StoredValues :
                 page = Page(a, d, 0, 0)
       \/ /\ extConfig \in SplitConfigs
          /\ campaignDefault \in CampaignDefaults
          /\ \E b \in Totals, f \in Totals : page = Page(<<>>, <<>>, b, f)
       \/ /\ extConfig = TestConfig
          /\ campaignDefault = <<>>
          /\ page = Page(<<>>, <<>>, 0, 0)
    /\ extPc = "idle"
    /\ exerciseLogMaxDays = -1
    /\ donationMaxDays = -1
    /\ now = 0
    /\ patch = <<>>
    /\ extRound = 0

\* inputs the handler does not read under the configuration are held fixed
LogInputsFor(config) ==
    IF config = TestConfig THEN TestLogInputs
    ELSE IF Len(config.activity.days) > 0 THEN ExerciseLogInputs ELSE { {} }

DonationInputsFor(config) ==
    IF Len(config.donation.days) < 1 THEN { {} }
    ELSE IF config = TestConfig THEN { DonationsOn(DonationDays) }
    ELSE IF HasSplitExerciseTotals(config) THEN { DonationsOn(DonationDays), {} }
    ELSE IF Len(config.activity.days) > 0 THEN FewDonationInputs
    ELSE DonationInputs

HoursFor(config) == IF HasSplitExerciseTotals(config) THEN Hours ELSE {0}

TotalsFor(config) == IF HasSplitExerciseTotals(config) THEN Totals ELSE {0}

ExtNext ==
    \/ \E exerciselogs \in LogInputsFor(extConfig),
          donations \in DonationInputsFor(extConfig),
          t \in HoursFor(extConfig), total \in TotalsFor(extConfig) :
            ApplyFundraiserExtensions(exerciselogs, donations, t, total)
    \/ UpdateRaiselyData

ExtIdle ==
    /\ extConfig = "none" /\ campaignDefault = <<>> /\ page = <<>> /\ extPc = "idle"
    /\ exerciseLogMaxDays = -1 /\ donationMaxDays = -1 /\ now = 0 /\ patch = <<>>
    /\ extRound = 0

InitExt == ExtInit /\ FanIdle /\ CacheIdle /\ StreakIdle /\ TransformIdle /\ MappingIdle /\ MembersIdle

SpecExt == InitExt /\ [][ExtNext]_vars

-----------------------------------------------------------------------------
(* The run of a list of entries: CalcDaysForStreakFromEntries, then
   EpochDays.MaxConsecutiveDays *)

\* the timestamps of entries on any set of days, with or without an entry
\* whose timestamp does not parse
StreakEntryInputs ==
    { {TimeOnDay(d) : d \in S} \cup extra :
        S \in SUBSET DonationDays, extra \in { {}, {BadTime} } }

\* exerciseLogDays := CalcDaysForStreakFromEntries(exerciselogEntries)
CalcDays ==
    /\ streakPc = "entries"
    /\ streakDays' = CalcDaysForStreakFromEntries(streakEntries)
    /\ streakPc' = "days"
    /\ UNCHANGED <<streakEntries, streakMaxDays>>
    /\ UNCHANGED <<extVars, fanVars, cacheVars, transformVars, mappingVars, memberVars>>

\* exerciseLogMaxDays := exerciseLogDays.MaxConsecutiveDays()
CountDays ==
    /\ streakPc = "days"
    /\ streakMaxDays' = MaxConsecutiveDays(streakDays)
    /\ streakPc' = "counted"
    /\ UNCHANGED <<streakEntries, streakDays>>
    /\ UNCHANGED <<extVars, fanVars, cacheVars, transformVars, mappingVars, memberVars>>

StreakInit ==
    /\ streakPc = "entries"
    /\ streakEntries \in StreakEntryInputs
    /\ streakDays = {}
    /\ streakMaxDays = 0

StreakNext ==
    \/ CalcDays
    \/ CountDays

InitStreak == StreakInit /\ ExtIdle /\ FanIdle /\ CacheIdle /\ TransformIdle /\ MappingIdle /\ MembersIdle

SpecStreak == InitStreak /\ [][StreakNext]_vars

\* the populated days from a to b, when every day between them is populated
Runs(days) ==
    { <<a, b>> \in days \X days : a <= b /\ \A d \in a..b : d \in days }

\* C19: the computed run length is the length of the longest run of
\* consecutive populated day-epochs between the smallest and the largest
\* observed day; an unpopulated day, alone or in a longer gap, ends a run.
C19_LongestConsecutiveRun ==
    streakPc = "counted" =>
        /\ \A r \in Runs(streakDays) : r[2] - r[1] + 1 <= streakMaxDays
        /\ streakDays /= {} =>
               \E r \in Runs(streakDays) : r[2] - r[1] + 1 = streakMaxDays
        /\ streakDays = {} => streakMaxDays = 0

\* the days hold a gap of one day and a gap of several days, and the longest
\* run is neither the first one nor all the populated days
C19_Witness ==
    /\ streakPc = "counted"
    /\ \E d \in streakDays : d + 1 \notin streakDays /\ d + 2 \in streakDays
    /\ \E d \in streakDays :
           /\ d + 1 \notin streakDays /\ d + 2 \notin streakDays
           /\ \E x \in streakDays : x > d
    /\ streakMaxDays >= 2
    /\ streakMaxDays < Cardinality(streakDays)
    /\ FirstDay(streakDays) + 1 \notin streakDays

-----------------------------------------------------------------------------
(* Properties of the streak state *)

StreakMappings == {ActivityMapping, DonationMapping}

\* the value of a field once the patch of the call is stored
NewValue(m) == IF PatchHas(patch, m) THEN PatchValue(patch, m) ELSE page[m]

Recorded(value) == Range(CurrentDaysForStreak(value))

IsPrefix(s, t) == Len(s) <= Len(t) /\ SubSeq(t, 1, Len(s)) = s

ConfiguredDays(m) ==
    IF m = ActivityMapping THEN extConfig.activity.days ELSE extConfig.donation.days

\* the run length the call computed for the field (-1: not computed)
ComputedRun(m) == IF m = ActivityMapping THEN exerciseLogMaxDays ELSE donationMaxDays

RecordedMax(m) ==
    IF m = ActivityMapping THEN MaxCurrentDaysForActivityStreak(extConfig, page)
    ELSE MaxCurrentDaysForDonationStreak(extConfig, page)

Tokens(value) == IF value = <<>> THEN <<>> ELSE Split(value)

Str3Str5 == Str3 \o <<"|">> \o Str5

\* C6: the streak state is append-only across recomputation: whatever the
\* existing value, the configured thresholds and the new run length, the new
\* value starts with the existing value and every threshold recorded in the
\* existing value is still recorded in the new value.
C6_StreakAppendOnly ==
    extPc = "applied" =>
        \A m \in StreakMappings :
            /\ IsPrefix(page[m], NewValue(m))
            /\ Recorded(page[m]) \subseteq Recorded(NewValue(m))

\* a recomputation that appended to a value which already recorded a threshold
C6_Witness ==
    /\ extPc = "applied"
    /\ PatchHas(patch, DonationMapping)
    /\ Recorded(page[DonationMapping]) /= {}

\* C7: with thresholds {3,5} and 6 consecutive donation days the first
\* computation yields "003|005"; a computation against a page that already
\* stores "003|005" emits no patch for the field, so the value stays identical.
C7_StreakIdempotent ==
    (extPc = "applied" /\ extConfig.donation.days = <<3, 5>>) =>
        /\ (page[DonationMapping] = <<>> /\ donationMaxDays = 6) =>
               (PatchHas(patch, DonationMapping)
                /\ PatchValue(patch, DonationMapping) = Str3Str5)
        /\ page[DonationMapping] = Str3Str5 =>
               (~PatchHas(patch, DonationMapping) /\ NewValue(DonationMapping) = Str3Str5)

\* the second computation, against the value the first one stored
C7_Witness ==
    /\ extPc = "applied"
    /\ extRound >= 1
    /\ extConfig.donation.days = <<3, 5>>
    /\ page[DonationMapping] = Str3Str5
    /\ patch = <<>>

\* C8: every token appended to the streak state is a configured threshold, and
\* none of them is greater than the newly computed run length.
C8_OnlyConfiguredUpToRun ==
    extPc = "applied" =>
        \A m \in StreakMappings :
            PatchHas(patch, m) =>
                LET old == Tokens(page[m])
                    new == Tokens(NewValue(m))
                IN  \A i \in (Len(old) + 1)..Len(new) :
                        /\ Atoi(new[i]).ok
                        /\ Atoi(new[i]).val \in Range(ConfiguredDays(m))
                        /\ Atoi(new[i]).val <= ComputedRun(m)

\* an append that left out a configured threshold above the run length
C8_Witness ==
    /\ extPc = "applied"
    /\ PatchHas(patch, DonationMapping)
    /\ \E d \in Range(extConfig.donation.days) :
           d > donationMaxDays /\ d \notin Recorded(NewValue(DonationMapping))

NoThresholdDue(m) ==
    \A d \in Range(ConfiguredDays(m)) :
        d \in Recorded(page[m]) \/ d > ComputedRun(m)

\* C20: when no new streak threshold is due the patch has no entry for the
\* streak field, so the field keeps its value; and when the call changes no
\* field at all, the patch is the empty string.
C20_NoPatchWithoutChange ==
    extPc = "applied" =>
        /\ \A m \in StreakMappings :
               NoThresholdDue(m) => (~PatchHas(patch, m) /\ NewValue(m) = page[m])
        /\ (\A f \in Fields : NewValue(f) = page[f]) => patch = <<>>

\* a call whose run exceeds the largest recorded threshold without reaching
\* the next configured one, and which changes nothing
C20_Witness ==
    /\ extPc = "applied"
    /\ extConfig.donation.days = <<3, 5>>
    /\ Recorded(page[DonationMapping]) = {3}
    /\ donationMaxDays = 4
    /\ NoThresholdDue(DonationMapping)
    /\ patch = <<>>

Str10Str15Str20 == Sprintf03d(10) \o <<"|">> \o Sprintf03d(15) \o <<"|">> \o Sprintf03d(20)

\* the call of the test: its configuration, its logs and donations, an empty page
TestCall ==
    /\ extConfig = TestConfig
    /\ page[ActivityMapping] = <<>>
    /\ ApplyFundraiserExtensions(TestExerciseLogs("OTHER"), DonationsOn(DonationDays), 0, 0)

\* the same call with the entries of day 10 and day 20 excluded by the filter
TestCallWithExcludedEntries ==
    /\ extConfig = TestConfig
    /\ page[ActivityMapping] = <<>>
    /\ ApplyFundraiserExtensions(TestExerciseLogs("WALKING"), DonationsOn(DonationDays), 0, 0)

\* C22 as stated: with the logs of the test the entries of day 10 and day 20
\* are excluded and break the run into the days 1 to 9 and 11 to 19, and the
\* activity streak written is "010|015|020".
C22_Original ==
    [][TestCall =>
         /\ exerciseLogMaxDays' = 9
         /\ PatchHas(patch', ActivityMapping)
         /\ PatchValue(patch', ActivityMapping) = Str10Str15Str20]_vars

\* C22 amended: the entries of day 10 and day 20 have the activity OTHER, which
\* the filter lists, so they are included: the run is 20 days and the activity
\* streak written is "010|015|020". Were the two entries excluded, the run
\* would be 9 days and no activity streak would be written.
C22_TestStreakFromIncludedEntries ==
    /\ [][TestCall =>
            /\ exerciseLogMaxDays' = 20
            /\ PatchHas(patch', ActivityMapping)
            /\ PatchValue(patch', ActivityMapping) = Str10Str15Str20]_vars
    /\ [][TestCallWithExcludedEntries =>
            /\ exerciseLogMaxDays' = 9
            /\ ~PatchHas(patch', ActivityMapping)]_vars

\* the call of the test has written the three thresholds
C22_Witness ==
    /\ extPc = "applied"
    /\ extConfig = TestConfig
    /\ page[ActivityMapping] = <<>>
    /\ exerciseLogMaxDays = 20
    /\ PatchHas(patch, ActivityMapping)
    /\ PatchValue(patch, ActivityMapping) = Str10Str15Str20

\* pipe-joined tokens, each a threshold zero-padded to three digits, in
\* ascending numeric order
WellEncoded(value) ==
    LET tokens == Tokens(value)
    IN  /\ \A i \in 1..Len(tokens) :
               /\ Atoi(tokens[i]).ok
               /\ tokens[i] = Sprintf03d(Atoi(tokens[i]).val)
        /\ \A i \in 1..(Len(tokens) - 1) :
               Atoi(tokens[i]).val < Atoi(tokens[i + 1]).val

\* C21: every streak value a recomputation writes is pipe-joined, each
\* threshold zero-padded to three digits, the thresholds ascending, whatever
\* value was stored before and whatever the order of the configured thresholds.
C21_WrittenValueWellEncoded ==
    extPc = "applied" =>
        \A m \in StreakMappings :
            PatchHas(patch, m) => WellEncoded(PatchValue(patch, m))

-----------------------------------------------------------------------------
(* Properties of the split exercise totals *)

SplitFrom == FromTimestamp(campaignDefault, extConfig.split.from,
                           [err |-> FALSE, hour |-> ZeroTime])

\* the call ran the split block with a `from` timestamp it could parse
SplitApplied ==
    /\ extPc = "applied"
    /\ HasSplitExerciseTotals(extConfig)
    /\ ~SplitFrom.err
    /\ SplitFrom.hour /= ZeroTime

MoreThanWindowBefore == now + WindowHours < SplitFrom.hour

\* C10 as stated: more than 24 hours before the start, a running total smaller
\* than the recorded "before" total yields no patch for the "before" field.
C10_Original ==
    (SplitApplied /\ MoreThanWindowBefore
     /\ page["exerciseTotal"] < page[BeforeMapping]) =>
        ~PatchHas(patch, BeforeMapping)

\* C10 amended: more than 24 hours before the start, a running total smaller
\* than the recorded "before" total is written to the "before" field.
C10_SmallerTotalWrittenBeforeWindow ==
    (SplitApplied /\ MoreThanWindowBefore
     /\ page["exerciseTotal"] < page[BeforeMapping]) =>
        (PatchHas(patch, BeforeMapping)
         /\ PatchValue(patch, BeforeMapping) = page["exerciseTotal"])

\* a smaller total arriving 48 hours before the start
C10_Witness ==
    /\ SplitApplied
    /\ MoreThanWindowBefore
    /\ page["exerciseTotal"] < page[BeforeMapping]

InsideWindow ==
    /\ now + WindowHours > SplitFrom.hour
    /\ now - WindowHours < SplitFrom.hour

\* C11: inside the 24-hour window around the start the "before" total is never
\* decreased: a value written to the "before" field in that window is larger
\* than the value recorded before.
C11_NeverDecreasedInWindow ==
    (SplitApplied /\ InsideWindow /\ PatchHas(patch, BeforeMapping)) =>
        PatchValue(patch, BeforeMapping) > page[BeforeMapping]

\* C12: when the current time is not before the start, the running total is
\* the value of the "after" field once the patch is stored, and the "before"
\* field does not appear in the patch.
C12_AfterStartWritesAfterField ==
    (SplitApplied /\ now >= SplitFrom.hour) =>
        /\ ~PatchHas(patch, BeforeMapping)
        /\ NewValue(FromMapping) = page["exerciseTotal"]

\* after the start, a total that differs from both recorded totals was written
\* to the "after" field
C12_Witness ==
    /\ SplitApplied
    /\ now > SplitFrom.hour
    /\ PatchHas(patch, FromMapping)
    /\ page["exerciseTotal"] /= page[BeforeMapping]

-----------------------------------------------------------------------------
(* Fan-out fetches *)

\* the operations that assign each sub-fetch its own error variable and join them
JoinOps == {"FetchFundraiserData", "FetchTeam", "FetchTeamMembers"}

\* the operations whose goroutines append to one shared error slice
AppendOps == {"MapTeamFundraisingPageForExtensions", "OrttoMapFundraisingPage"}

FundraiserOps == {"FetchFundraiserData", "OrttoMapFundraisingPage"}

TeamOps == {"FetchTeam", "MapTeamFundraisingPageForExtensions"}

FanOps == JoinOps \cup AppendOps

Worker(kind) == <<kind, 0>>

Member(i) == <<"member", i>>

NilError == <<>>

ZeroData == <<>>

\* the sub-fetches of an operation, in the order the code launches them
Workers(op, cfg) ==
    IF op \in FundraiserOps
    THEN <<Worker("page")>>
         \o (IF cfg.logs THEN <<Worker("logs")>> ELSE <<>>)
         \o (IF cfg.donations THEN <<Worker("donations")>> ELSE <<>>)
    ELSE IF op \in TeamOps THEN <<Worker("team"), Worker("teamPage")>>
    ELSE [i \in 1..cfg.members |-> Member(i)]

WorkerSet == Range(Workers(fanOp, fanCfg))

Launched == {w \in WorkerSet : wpc[w] /= "unstarted"}

\* wg.Add(1) before each go statement; wg.Add(2) before the two of a team
WaitGroupAdd(op, w) ==
    IF op \in TeamOps THEN (IF w = Worker("team") THEN 2 ELSE 0) ELSE 1

\* the ctx parameter of the operation, and a context nobody cancels
CallerContext == "ctx"

BackgroundContext == "background"

\* parameters that carry a context of their own
fetchParams_Background(ctx) == BackgroundContext

\* fetchParams: the parameters of a sub-fetch carry the caller's context
fetchParams(ctx) == ctx

\* ctx.Done() is closed
ContextDone(ctx) == ctx = CallerContext /\ cancelled

\* Fetch(params.Context): a request whose context is done fails with the
\* context's error; any other request succeeds or fails
FetchOutcomes(ctx) == IF ContextDone(ctx) THEN {"fail"} ELSE {"ok", "fail"}

\* the caller cancels the context, or its deadline passes
Cancel ==
    /\ ~cancelled
    /\ cancelled' = TRUE
    /\ UNCHANGED <<fanOp, fanCfg, mainPc, wg, wpc, fetchErr, slotErr, slotData,
                   errs, wlocal, fanRet, team, wctx>>
    /\ UNCHANGED <<extVars, cacheVars, streakVars, transformVars, mappingVars, memberVars>>

\* the next go statement of the calling goroutine
Launch(w) ==
    /\ mainPc = "launch"
    /\ w \in WorkerSet
    /\ wpc[w] = "unstarted"
    /\ \A i \in 1..Len(Workers(fanOp, fanCfg)) :
           Workers(fanOp, fanCfg)[i] = w =>
               \A j \in 1..(i - 1) : wpc[Workers(fanOp, fanCfg)[j]] /= "unstarted"
    /\ wg' = wg + WaitGroupAdd(fanOp, w)
    /\ wpc' = [wpc EXCEPT ![w] = "fetching"]
    /\ mainPc' = IF \A v \in WorkerSet \ {w} : wpc[v] /= "unstarted"
                 THEN "wait" ELSE "launch"
    /\ wctx' = [wctx EXCEPT ![w] = fetchParams(CallerContext)]
    /\ UNCHANGED <<fanOp, fanCfg, fetchErr, slotErr, slotData, errs, wlocal, fanRet>>
    /\ UNCHANGED <<team, cancelled, extVars, cacheVars, streakVars, transformVars, mappingVars, memberVars>>

\* fetchRaiselyData returns: the data is stored on success, and the error is
\* assigned to the sub-fetch's own variable (JoinOps) or kept to be appended
FetchRaiselyData(w, outcome) ==
    /\ w \in WorkerSet
    /\ wpc[w] = "fetching"
    /\ outcome \in FetchOutcomes(wctx[w])
    /\ fetchErr' = [fetchErr EXCEPT ![w] = outcome]
    /\ slotData' = [slotData EXCEPT ![w] = IF outcome = "ok" THEN <<"data", w>> ELSE ZeroData]
    /\ slotErr' = IF fanOp \in JoinOps
                  THEN [slotErr EXCEPT ![w] = IF outcome = "ok" THEN NilError ELSE w]
                  ELSE slotErr
    /\ wpc' = [wpc EXCEPT ![w] = IF fanOp \in AppendOps /\ outcome = "fail"
                                  THEN "append_read" ELSE "fetched"]
    /\ UNCHANGED <<fanOp, fanCfg, mainPc, wg, errs, wlocal, fanRet>>
    /\ UNCHANGED <<team, cancelled, wctx, extVars, cacheVars, streakVars, transformVars, mappingVars, memberVars>>

\* errs = append(errs, err), unsynchronized: the slice header is read ...
AppendRead(w) ==
    /\ w \in WorkerSet
    /\ wpc[w] = "append_read"
    /\ wlocal' = [wlocal EXCEPT ![w] = errs]
    /\ wpc' = [wpc EXCEPT ![w] = "append_write"]
    /\ UNCHANGED <<fanOp, fanCfg, mainPc, wg, fetchErr, slotErr, slotData, errs, fanRet>>
    /\ UNCHANGED <<team, cancelled, wctx, extVars, cacheVars, streakVars, transformVars, mappingVars, memberVars>>

\* ... and the grown slice is written back
AppendWrite(w) ==
    /\ w \in WorkerSet
    /\ wpc[w] = "append_write"
    /\ errs' = Append(wlocal[w], w)
    /\ wpc' = [wpc EXCEPT ![w] = "fetched"]
    /\ UNCHANGED <<fanOp, fanCfg, mainPc, wg, fetchErr, slotErr, slotData, wlocal, fanRet>>
    /\ UNCHANGED <<team, cancelled, wctx, extVars, cacheVars, streakVars, transformVars, mappingVars, memberVars>>

\* wg.Done()
Done(w) ==
    /\ w \in WorkerSet
    /\ wpc[w] = "fetched"
    /\ wg' = wg - 1
    /\ wpc' = [wpc EXCEPT ![w] = "done"]
    /\ UNCHANGED <<fanOp, fanCfg, mainPc, fetchErr, slotErr, slotData, errs, wlocal, fanRet>>
    /\ UNCHANGED <<team, cancelled, wctx, extVars, cacheVars, streakVars, transformVars, mappingVars, memberVars>>

\* a join that looks at its first argument only
ErrorsJoin_FirstOnly(es) ==
    IF es = <<>> THEN NilError
    ELSE IF Head(es) /= NilError THEN <<Head(es)>> ELSE NilError

\* errors.Join: the non-nil errors, in argument order; nil when there is none
RECURSIVE ErrorsJoin(_)
ErrorsJoin(es) ==
    IF es = <<>> THEN NilError
    ELSE (IF Head(es) /= NilError THEN <<Head(es)>> ELSE <<>>) \o ErrorsJoin(Tail(es))

\* a wait that gives up as soon as a sub-fetch has reported an error
WaitReturns_FailFast ==
    \/ wg = 0
    \/ \E w \in WorkerSet : slotErr[w] /= NilError
    \/ errs /= <<>>

\* wg.Wait() returns
WaitReturns == wg = 0

JoinedError == ErrorsJoin([i \in 1..Len(Workers(fanOp, fanCfg)) |->
                              slotErr[Workers(fanOp, fanCfg)[i]]])

\* wg.Wait(), then the return statement of the operation
WaitAndReturn ==
    /\ mainPc = "wait"
    /\ WaitReturns
    /\ fanRet' = IF fanOp \in JoinOps
                 THEN [data |-> slotData, err |-> JoinedError]
                 ELSE IF Len(errs) > 0
                 THEN [data |-> [w \in WorkerSet |-> ZeroData], err |-> errs]
                 ELSE [data |-> slotData, err |-> NilError]
    /\ mainPc' = "returned"
    /\ UNCHANGED <<fanOp, fanCfg, wg, wpc, fetchErr, slotErr, slotData, errs, wlocal>>
    /\ UNCHANGED <<team, cancelled, wctx, extVars, cacheVars, streakVars, transformVars, mappingVars, memberVars>>

\* FetchTeamMembers of a team without members: return nil, nil
ReturnNoMembers ==
    /\ mainPc = "launch"
    /\ WorkerSet = {}
    /\ fanRet' = [data |-> slotData, err |-> NilError]
    /\ mainPc' = "returned"
    /\ UNCHANGED <<fanOp, fanCfg, wg, wpc, fetchErr, slotErr, slotData, errs, wlocal>>
    /\ UNCHANGED <<team, cancelled, wctx, extVars, cacheVars, streakVars, transformVars, mappingVars, memberVars>>

FanConfigs(op) ==
    IF op \in FundraiserOps
    THEN {[logs |-> l, donations |-> d, members |-> 0] : l \in BOOLEAN, d \in BOOLEAN}
    ELSE IF op = "MapTeamFundraisingPageForExtensions"
    THEN {[logs |-> l, donations |-> d, members |-> 0] : l \in BOOLEAN, d \in BOOLEAN}
    ELSE IF op \in TeamOps THEN {[logs |-> FALSE, donations |-> FALSE, members |-> 0]}
    ELSE {[logs |-> FALSE, donations |-> FALSE, members |-> n] : n \in 0..MaxMembers}

\* the team mapper that runs a team fan-out, with the roster the team has
Teams(op) ==
    IF op = "FetchTeam"
    THEN {[caller |-> "MapTeamFundraisingPage", roster |-> n, next |-> 0] : n \in 0..MaxMembers}
    ELSE IF op = "MapTeamFundraisingPageForExtensions"
    THEN {[caller |-> op, roster |-> n, next |-> 0] : n \in 0..MaxMembers}
    ELSE {NoTeam}

\* the calling goroutine starts the next fan-out
StartFanOut(op, cfg) ==
    /\ fanOp' = op
    /\ fanCfg' = cfg
    /\ mainPc' = "launch"
    /\ wg' = 0
    /\ wpc' = [w \in Range(Workers(op, cfg)) |-> "unstarted"]
    /\ fetchErr' = [w \in Range(Workers(op, cfg)) |-> "none"]
    /\ slotErr' = [w \in Range(Workers(op, cfg)) |-> NilError]
    /\ slotData' = [w \in Range(Workers(op, cfg)) |-> ZeroData]
    /\ errs' = <<>>
    /\ wlocal' = [w \in Range(Workers(op, cfg)) |-> <<>>]
    /\ fanRet' = [data |-> <<>>, err |-> NilError]
    /\ wctx' = [w \in Range(Workers(op, cfg)) |-> "none"]
    /\ UNCHANGED cancelled

\* MapTeamFundraisingPage of the Ortto mappers: FetchTeam returned without
\* error, FetchTeamMembers is called with the team
MapTeamFundraisingPage ==
    /\ team.caller = "MapTeamFundraisingPage"
    /\ fanOp = "FetchTeam"
    /\ mainPc = "returned"
    /\ fanRet.err = NilError
    /\ StartFanOut("FetchTeamMembers", [fanCfg EXCEPT !.members = team.roster])
    /\ team' = [team EXCEPT !.next = team.roster]
    /\ UNCHANGED <<extVars, cacheVars, streakVars, transformVars, mappingVars, memberVars>>

\* MapTeamFundraisingPageForExtensions: the team and its page were fetched
\* without error, or the previous member was; the loop over team.TeamMembers
\* calls MapFundraisingPageForExtensions, that is FetchFundraiserData, for the
\* next member
MapTeamFundraisingPageForExtensions ==
    /\ team.caller = "MapTeamFundraisingPageForExtensions"
    /\ mainPc = "returned"
    /\ fanRet.err = NilError
    /\ team.next < team.roster
    /\ StartFanOut("FetchFundraiserData", fanCfg)
    /\ team' = [team EXCEPT !.next = team.next + 1]
    /\ UNCHANGED <<extVars, cacheVars, streakVars, transformVars, mappingVars, memberVars>>

FanInit ==
    /\ fanOp \in FanOps
    /\ fanCfg \in FanConfigs(fanOp)
    /\ mainPc = "launch"
    /\ wg = 0
    /\ wpc = [w \in WorkerSet |-> "unstarted"]
    /\ fetchErr = [w \in WorkerSet |-> "none"]
    /\ slotErr = [w \in WorkerSet |-> NilError]
    /\ slotData = [w \in WorkerSet |-> ZeroData]
    /\ errs = <<>>
    /\ wlocal = [w \in WorkerSet |-> <<>>]
    /\ fanRet = [data |-> <<>>, err |-> NilError]
    /\ team \in Teams(fanOp)
    /\ cancelled = FALSE
    /\ wctx = [w \in WorkerSet |-> "none"]

AllWorkers ==
    {Worker(k) : k \in {"page", "logs", "donations", "team", "teamPage"}}
    \cup {Member(i) : i \in 1..MaxMembers}

FanNext ==
    \/ \E w \in AllWorkers : Launch(w)
    \/ \E w \in AllWorkers, outcome \in {"ok", "fail"} : FetchRaiselyData(w, outcome)
    \/ \E w \in AllWorkers : AppendRead(w)
    \/ \E w \in AllWorkers : AppendWrite(w)
    \/ \E w \in AllWorkers : Done(w)
    \/ WaitAndReturn
    \/ ReturnNoMembers
    \/ MapTeamFundraisingPage
    \/ MapTeamFundraisingPageForExtensions
    \/ Cancel

InitFan == FanInit /\ ExtIdle /\ CacheIdle /\ StreakIdle /\ TransformIdle /\ MappingIdle /\ MembersIdle

SpecFan == InitFan /\ [][FanNext]_vars

-----------------------------------------------------------------------------
(* Properties of the fan-out fetches *)

Failed == {w \in WorkerSet : fetchErr[w] = "fail"}

Succeeded == {w \in WorkerSet : fetchErr[w] = "ok"}

\* C2: a fan-out never fails fast: when the operation has returned, every
\* sub-fetch of the operation was launched and has completed, also when some
\* sub-fetch failed.
C2_NoFailFast ==
    mainPc = "returned" => \A w \in WorkerSet : wpc[w] = "done"

\* FetchFundraiserData returned after a failed and a successful sub-fetch
C2_Witness ==
    /\ mainPc = "returned"
    /\ fanOp = "FetchFundraiserData"
    /\ Failed /= {}
    /\ Succeeded /= {}

ThreeSubFetches == {Worker("page"), Worker("logs"), Worker("donations")}

\* C3: when the page, exercise-log and donation sub-fetches of a fundraiser
\* fan-out all fail, the returned error reflects all three failures.
C3_AllThreeReflected ==
    (mainPc = "returned" /\ fanOp \in FundraiserOps
     /\ WorkerSet = ThreeSubFetches /\ Failed = ThreeSubFetches) =>
        \A w \in ThreeSubFetches : Contains(fanRet.err, w)

\* C4: under every interleaving of the worker goroutines, the error of each
\* failed sub-fetch is present in the combined error.
C4_NoErrorLost ==
    mainPc = "returned" => \A w \in Failed : Contains(fanRet.err, w)

\* C5 as stated: a fan-out fetch that returns an error returns no data of the
\* sub-fetches that succeeded.
C5_Original ==
    (mainPc = "returned" /\ fanOp \in JoinOps /\ fanRet.err /= NilError) =>
        \A w \in WorkerSet : fanRet.data[w] = ZeroData

\* C5 amended: a fan-out fetch returns a nil error exactly when every sub-fetch
\* succeeded, and then the data of every sub-fetch; when a sub-fetch failed it
\* returns the joined error together with the data of the sub-fetches that
\* succeeded.
C5_JoinedErrorWithData ==
    (mainPc = "returned" /\ fanOp \in JoinOps) =>
        /\ fanRet.err = NilError <=> Failed = {}
        /\ \A w \in WorkerSet :
               fanRet.data[w] = IF w \in Succeeded THEN <<"data", w>> ELSE ZeroData

\* an error returned together with the data of a sub-fetch that succeeded
C5_Witness ==
    /\ mainPc = "returned"
    /\ fanOp \in JoinOps
    /\ fanRet.err /= NilError
    /\ \E w \in WorkerSet : fanRet.data[w] /= ZeroData

\* the roster and team page fetches of a team mapper are still running
PhaseOneRunning ==
    /\ team.caller /= "none"
    /\ fanOp \in TeamOps
    /\ \E w \in WorkerSet : wpc[w] /= "done"

\* a roster member's fetch has not been launched yet while the fetch of
\* another member is in flight
MemberWaiting ==
    /\ team.caller /= "none"
    /\ \E w \in WorkerSet : wpc[w] = "fetching"
    /\ \/ fanOp = "FetchTeamMembers" /\ \E w \in WorkerSet : wpc[w] = "unstarted"
       \/ fanOp = "FetchFundraiserData" /\ team.next < team.roster

\* the calling goroutine can launch the fetch of the next roster member now
NextMemberCanStart ==
    IF fanOp = "FetchTeamMembers"
    THEN ENABLED (\E i \in 1..MaxMembers : Launch(Member(i)))
    ELSE ENABLED MapTeamFundraisingPageForExtensions

\* C17: for a team, no member fetch starts before the roster fetch and the
\* team page fetch have both completed, and the member fetches are launched in
\* parallel: the launch of a member's fetch never waits for the fetch of
\* another member.
C17_TeamPhases ==
    /\ PhaseOneRunning =>
           /\ team.next = 0
           /\ ~ENABLED MapTeamFundraisingPage
           /\ ~ENABLED MapTeamFundraisingPageForExtensions
    /\ MemberWaiting => NextMemberCanStart

\* a sub-fetch that was in flight under the cancelled context ends in this step
EndsCancelled(w) ==
    /\ cancelled
    /\ wpc[w] = "fetching"
    /\ wpc'[w] /= "fetching"

\* C18: every sub-fetch a fan-out launches is issued with the caller's
\* context, and once that context is cancelled every sub-fetch still in
\* flight ends with an error instead of a result.
C18_CancellationReachesSubFetches ==
    /\ [](\A w \in Launched : wctx[w] = CallerContext)
    /\ [][\A w \in WorkerSet : EndsCancelled(w) => fetchErr'[w] = "fail"]_vars

\* the context is cancelled while two sub-fetches are in flight and another
\* one has already delivered its data
C18_Witness ==
    /\ cancelled
    /\ \E v, w \in WorkerSet :
           /\ v /= w
           /\ wpc[v] = "fetching" /\ wpc[w] = "fetching"
           /\ wctx[v] = CallerContext /\ wctx[w] = CallerContext
    /\ \E u \in WorkerSet : fetchErr[u] = "ok"

-----------------------------------------------------------------------------
(* The campaign cache: CachedFundraisingCampaign of the Raisely fetcher
   (a sync.Map keyed by campaign id) and of the Ortto mapper (one
   package-level pointer) *)

Callers == 1..MaxCallers

CampaignIds == {"A", "B"}

NoFetch == [seq |-> 0, outcome |-> "none"]

\* a call that has not returned yet
NoReturn == [val |-> NilCampaign, err |-> NilError]

\* the campaign an upstream fetch answers with
FetchFundraisingCampaign(p2pID, seq) == [id |-> p2pID, ver |-> seq]

\* the error of a failed upstream fetch
FetchError == <<"fetch error">>

\* sync.Map.Load
Load(m, key) == IF key \in DOMAIN m THEN m[key] ELSE NilCampaign

\* a store that keeps nothing but the entry it writes
Store_Replace(m, key, value) == [k \in {key} |-> value]

\* a store that keeps the entry the key already has
Store_IfAbsent(m, key, value) ==
    [k \in DOMAIN m \cup {key} |-> IF k \in DOMAIN m THEN m[k] ELSE value]

\* sync.Map.Store
Store(m, key, value) == [k \in DOMAIN m \cup {key} |-> IF k = key THEN value ELSE m[k]]

\* a failed fetch that always propagates its error
FallbackOnError_Propagate(cached) == [val |-> NilCampaign, err |-> FetchError]

\* the branch taken when the fetch failed: the cached value if there is one
FallbackOnError(cached) ==
    IF cached /= NilCampaign
    THEN [val |-> cached, err |-> NilError]
    ELSE [val |-> NilCampaign, err |-> FetchError]

\* a call starts: the cache is consulted unless a refresh is asked for, and a
\* fetch is issued on a miss
RaiselyBegin(c, p2pID, refresh) ==
    /\ cacheImpl = "raisely"
    /\ cpc[c] \in {"idle", "returned"}
    /\ creq' = [creq EXCEPT ![c] = [id |-> p2pID, refresh |-> refresh]]
    /\ LET v == Load(cachedFundraisingCampaigns, p2pID) IN
       IF ~refresh /\ v /= NilCampaign
       THEN /\ cpc' = [cpc EXCEPT ![c] = "returned"]
            /\ cret' = [cret EXCEPT ![c] = [val |-> v, err |-> NilError]]
            /\ cfetch' = [cfetch EXCEPT ![c] = NoFetch]
            /\ UNCHANGED upstreamVer
       ELSE /\ upstreamVer < MaxFetches
            /\ cpc' = [cpc EXCEPT ![c] = "fetching"]
            /\ cfetch' = [cfetch EXCEPT ![c] = [seq |-> upstreamVer + 1, outcome |-> "pending"]]
            /\ upstreamVer' = upstreamVer + 1
            /\ cret' = [cret EXCEPT ![c] = NoReturn]
    /\ UNCHANGED <<cacheImpl, cachedFundraisingCampaigns, cachedFundraisingCampaign>>
    /\ UNCHANGED <<extVars, fanVars, streakVars, transformVars, mappingVars, memberVars>>

\* the fetch answers: a campaign is stored and returned, a failure falls back
RaiselyFetchComplete(c, outcome) ==
    /\ cacheImpl = "raisely"
    /\ cpc[c] = "fetching"
    /\ cfetch' = [cfetch EXCEPT ![c].outcome = outcome]
    /\ cpc' = [cpc EXCEPT ![c] = "returned"]
    /\ IF outcome = "fail"
       THEN /\ cret' = [cret EXCEPT ![c] =
                            FallbackOnError(Load(cachedFundraisingCampaigns, creq[c].id))]
            /\ UNCHANGED cachedFundraisingCampaigns
       ELSE LET fc == FetchFundraisingCampaign(creq[c].id, cfetch[c].seq) IN
            /\ cachedFundraisingCampaigns' = Store(cachedFundraisingCampaigns, creq[c].id, fc)
            /\ cret' = [cret EXCEPT ![c] = [val |-> fc, err |-> NilError]]
    /\ UNCHANGED <<cacheImpl, cachedFundraisingCampaign, creq, upstreamVer>>
    /\ UNCHANGED <<extVars, fanVars, streakVars, transformVars, mappingVars, memberVars>>

\* a call starts: the pointer is tested, and a fetch is issued when it is nil
\* or a refresh is asked for
OrttoBegin(c, p2pid, refresh) ==
    /\ cacheImpl = "ortto"
    /\ cpc[c] \in {"idle", "returned"}
    /\ creq' = [creq EXCEPT ![c] = [id |-> p2pid, refresh |-> refresh]]
    /\ cret' = [cret EXCEPT ![c] = NoReturn]
    /\ IF cachedFundraisingCampaign = NilCampaign \/ refresh
       THEN /\ upstreamVer < MaxFetches
            /\ cpc' = [cpc EXCEPT ![c] = "fetching"]
            /\ cfetch' = [cfetch EXCEPT ![c] = [seq |-> upstreamVer + 1, outcome |-> "pending"]]
            /\ upstreamVer' = upstreamVer + 1
       ELSE /\ cpc' = [cpc EXCEPT ![c] = "return"]
            /\ cfetch' = [cfetch EXCEPT ![c] = NoFetch]
            /\ UNCHANGED upstreamVer
    /\ UNCHANGED <<cacheImpl, cachedFundraisingCampaigns, cachedFundraisingCampaign>>
    /\ UNCHANGED <<extVars, fanVars, streakVars, transformVars, mappingVars, memberVars>>

\* the fetch answers: a campaign replaces the pointer, a failure returns its
\* error when the pointer is nil
OrttoFetchComplete(c, outcome) ==
    /\ cacheImpl = "ortto"
    /\ cpc[c] = "fetching"
    /\ cfetch' = [cfetch EXCEPT ![c].outcome = outcome]
    /\ IF outcome = "ok"
       THEN /\ cachedFundraisingCampaign' = FetchFundraisingCampaign(creq[c].id, cfetch[c].seq)
            /\ cpc' = [cpc EXCEPT ![c] = "return"]
            /\ UNCHANGED cret
       ELSE /\ UNCHANGED cachedFundraisingCampaign
            /\ IF cachedFundraisingCampaign = NilCampaign
               THEN /\ cpc' = [cpc EXCEPT ![c] = "returned"]
                    /\ cret' = [cret EXCEPT ![c] = [val |-> NilCampaign, err |-> FetchError]]
               ELSE /\ cpc' = [cpc EXCEPT ![c] = "return"]
                    /\ UNCHANGED cret
    /\ UNCHANGED <<cacheImpl, cachedFundraisingCampaigns, creq, upstreamVer>>
    /\ UNCHANGED <<extVars, fanVars, streakVars, transformVars, mappingVars, memberVars>>

\* return cachedFundraisingCampaign, nil
OrttoReturn(c) ==
    /\ cacheImpl = "ortto"
    /\ cpc[c] = "return"
    /\ cpc' = [cpc EXCEPT ![c] = "returned"]
    /\ cret' = [cret EXCEPT ![c] = [val |-> cachedFundraisingCampaign, err |-> NilError]]
    /\ UNCHANGED <<cacheImpl, cachedFundraisingCampaigns, cachedFundraisingCampaign,
                   creq, cfetch, upstreamVer>>
    /\ UNCHANGED <<extVars, fanVars, streakVars, transformVars, mappingVars, memberVars>>

CacheInit ==
    /\ cacheImpl \in {"raisely", "ortto"}
    /\ cachedFundraisingCampaigns = <<>>
    /\ cachedFundraisingCampaign = NilCampaign
    /\ cpc = [c \in Callers |-> "idle"]
    /\ creq = [c \in Callers |-> [id |-> "A", refresh |-> FALSE]]
    /\ cfetch = [c \in Callers |-> NoFetch]
    /\ cret = [c \in Callers |-> NoReturn]
    /\ upstreamVer = 0

CacheNext ==
    \/ \E c \in Callers, id \in CampaignIds, refresh \in BOOLEAN : RaiselyBegin(c, id, refresh)
    \/ \E c \in Callers, outcome \in {"ok", "fail"} : RaiselyFetchComplete(c, outcome)
    \/ \E c \in Callers, id \in CampaignIds, refresh \in BOOLEAN : OrttoBegin(c, id, refresh)
    \/ \E c \in Callers, outcome \in {"ok", "fail"} : OrttoFetchComplete(c, outcome)
    \/ \E c \in Callers : OrttoReturn(c)

InitCache == CacheInit /\ ExtIdle /\ FanIdle /\ StreakIdle /\ TransformIdle /\ MappingIdle /\ MembersIdle

SpecCache == InitCache /\ [][CacheNext]_vars

-----------------------------------------------------------------------------
(* Properties of the campaign cache *)

\* the entry the cache holds for a campaign id
EntryFor(id) ==
    IF cacheImpl = "raisely" THEN Load(cachedFundraisingCampaigns, id)
    ELSE IF cachedFundraisingCampaign /= NilCampaign /\ cachedFundraisingCampaign.id = id
         THEN cachedFundraisingCampaign
         ELSE NilCampaign

\* the caller returns in this step from a call whose upstream fetch failed
ReturnsAfterFailedFetch(c) ==
    /\ cpc[c] /= "returned"
    /\ cpc'[c] = "returned"
    /\ cfetch'[c].outcome = "fail"

\* C1: when the upstream fetch of a call fails, the call returns the entry
\* cached for its campaign id with no error if there is one, and it returns
\* the fetch error only when no entry is cached for that id.
C1_StaleOnError ==
    [][\A c \in Callers :
          ReturnsAfterFailedFetch(c) =>
              /\ EntryFor(creq[c].id) /= NilCampaign =>
                     cret'[c] = [val |-> EntryFor(creq[c].id), err |-> NilError]
              /\ cret'[c].err /= NilError => EntryFor(creq[c].id) = NilCampaign]_vars

\* a forced refresh failed and the call returned the entry stored by an
\* earlier successful fetch
C1_Witness ==
    \E c \in Callers :
        /\ cpc[c] = "returned"
        /\ creq[c].refresh
        /\ cfetch[c].outcome = "fail"
        /\ cret[c].err = NilError
        /\ cret[c].val /= NilCampaign
        /\ cret[c].val.id = creq[c].id
        /\ cret[c].val.ver < cfetch[c].seq

\* the caller issues an upstream fetch in this step
FetchIssued(c) == cpc[c] /= "fetching" /\ cpc'[c] = "fetching"

\* the caller returns in this step from a call that issued no fetch
ReturnsWithoutFetch(c) ==
    /\ cpc'[c] = "returned"
    /\ cfetch'[c] = NoFetch
    /\ \/ cpc[c] /= "returned"
       \/ <<creq[c], cret[c], cfetch[c]>> /= <<creq'[c], cret'[c], cfetch'[c]>>

\* C13: the cache is consulted first unless a refresh is requested: a fetch is
\* issued only on a miss for the requested campaign id or on a forced refresh,
\* and a call that returns without fetching returns, with no error, the entry
\* cached for the requested id.
C13_FetchOnlyOnMissOrRefresh ==
    [][\A c \in Callers :
          /\ FetchIssued(c) =>
                 (creq'[c].refresh \/ EntryFor(creq'[c].id) = NilCampaign)
          /\ ReturnsWithoutFetch(c) =>
                 /\ EntryFor(creq'[c].id) /= NilCampaign
                 /\ cret'[c] = [val |-> EntryFor(creq'[c].id), err |-> NilError]]_vars

\* C14: the cache is keyed by campaign id: a call never returns an entry that
\* was fetched for another campaign id than the one it asked for.
C14_KeyedByCampaignId ==
    \A c \in Callers :
        (cpc[c] = "returned" /\ cret[c].val /= NilCampaign) =>
            cret[c].val.id = creq[c].id

\* the caller's upstream fetch fails in this step
FetchFails(c) == cfetch[c].outcome = "pending" /\ cfetch'[c].outcome = "fail"

\* the caller's upstream fetch succeeds in this step
FetchSucceeds(c) == cfetch[c].outcome = "pending" /\ cfetch'[c].outcome = "ok"

\* C15: an entry of the keyed cache is never evicted: an id that has an entry
\* has one after every step, and a step in which a fetch or refresh fails
\* leaves every stored entry as it was.
C15_NeverEvicted ==
    [][\A id \in DOMAIN cachedFundraisingCampaigns :
          /\ id \in DOMAIN cachedFundraisingCampaigns'
          /\ (\E c \in Callers : FetchFails(c)) =>
                 cachedFundraisingCampaigns'[id] = cachedFundraisingCampaigns[id]]_vars

\* a refresh failed after an entry was stored, and the entry is still held
C15_Witness ==
    \E c \in Callers :
        /\ cfetch[c].outcome = "fail"
        /\ creq[c].id \in DOMAIN cachedFundraisingCampaigns
        /\ cachedFundraisingCampaigns[creq[c].id].ver < cfetch[c].seq

\* the step a caller is waiting to take can be taken whatever the other
\* callers are doing
CallCanProceed(c) ==
    /\ (cacheImpl = "raisely" /\ cpc[c] = "fetching") =>
           \A outcome \in {"ok", "fail"} : ENABLED RaiselyFetchComplete(c, outcome)
    /\ (cacheImpl = "ortto" /\ cpc[c] = "fetching") =>
           \A outcome \in {"ok", "fail"} : ENABLED OrttoFetchComplete(c, outcome)
    /\ cpc[c] = "return" => ENABLED OrttoReturn(c)

\* the cache holds something: once it does, a reader never finds it empty
Holds(id) ==
    IF cacheImpl = "raisely" THEN id \in DOMAIN cachedFundraisingCampaigns
    ELSE cachedFundraisingCampaign /= NilCampaign

\* C16: concurrent calls never block one another: a call waiting for its fetch
\* or about to return can always take its step; racing callers may each fetch,
\* and a successful fetch leaves its own campaign in the cache (the last writer
\* wins); once something is stored a reader never finds the cache empty again.
C16_NonBlockingLastWriterWins ==
    /\ [](\A c \in Callers : CallCanProceed(c))
    /\ [][\A c \in Callers :
             /\ FetchSucceeds(c) =>
                    EntryFor(creq[c].id)' = FetchFundraisingCampaign(creq[c].id, cfetch[c].seq)
             /\ \A id \in CampaignIds : Holds(id) => Holds(id)']_vars

\* two callers missed on the same id, both fetched, and the fetch issued first
\* was stored last
C16_Witness ==
    \E c1, c2 \in Callers :
        /\ c1 /= c2
        /\ creq[c1].id = creq[c2].id
        /\ ~creq[c1].refresh /\ ~creq[c2].refresh
        /\ cfetch[c1].outcome = "ok" /\ cfetch[c2].outcome = "ok"
        /\ cfetch[c1].seq < cfetch[c2].seq
        /\ EntryFor(creq[c1].id).ver = cfetch[c1].seq

-----------------------------------------------------------------------------
(* Field transforms: ApplyFundraiserFieldTransforms and
   ApplyTeamFieldTransforms, called by the mappers for one fundraiser or for
   each member of a team *)

\* at most this many members in a team
MaxBatch == 2

\* the first param of the donation-window transform: the minimum amount
MinAmount == 2

RegistrationDateField == "tme:cm:registration-date"

RegistrationIdField == "str:cm:p2p-registration-id"

RewardField == "str:cm:reward"

CaptainField == "bol:cm:is-captain"

\* field values: strings, and the values that are not strings
NilValue == "<nil>"

TrueValue == "<true>"

FalseValue == "<false>"

\* v.(string) succeeds
IsString(v) == v \notin {NilValue, TrueValue, FalseValue}

\* _, exists := fields[field], with a variant that finds every field
FieldExists_Always(fields, field) == TRUE

FieldExists(fields, field) == field \in DOMAIN fields

\* fields[field]: the nil interface for a missing key
FieldValue(fields, field) == IF field \in DOMAIN fields THEN fields[field] ELSE NilValue

SetField(fields, key, value) ==
    [f \in DOMAIN fields \cup {key} |-> IF f = key THEN value ELSE fields[f]]

DeleteField(fields, key) == [f \in DOMAIN fields \ {key} |-> fields[f]]

\* campaign.FundraisingPageDefaults
DefaultRegistrationDate == "2024-01-01T00:00:00Z"

RegistrationDate == "2024-05-01T10:00:00Z"

DefaultRegistrationId == "default-id"

PageDefaults ==
    << [label |-> "Registration Date", value |-> DefaultRegistrationDate],
       [label |-> "Registration Id", value |-> DefaultRegistrationId] >>

\* some default has the label of the argument and the value of the field
IsDefault(arg, fieldValue) ==
    \E i \in 1..Len(PageDefaults) :
        arg = <<PageDefaults[i].label>> /\ fieldValue = PageDefaults[i].value

\* time.Parse(time.RFC3339, s), in hours since the registration
TimeParse(s) == [ok |-> s \in {RegistrationDate, DefaultRegistrationDate}, hour |-> 0]

\* time.ParseDuration(s), in hours
ParseDuration(s) == IF s = "24h" THEN [ok |-> TRUE, hours |-> 24]
                    ELSE [ok |-> FALSE, hours |-> 0]

\* the characters of a param
Chars(s) == IF s = "2" THEN Itoa(MinAmount)
            ELSE IF s = "two" THEN <<"t", "w", "o">> ELSE <<>>

RECURSIVE SumAmounts(_)
SumAmounts(S) ==
    IF S = {} THEN 0
    ELSE LET d == CHOOSE x \in S : TRUE IN d.amount + SumAmounts(S \ {d})

\* FetchDonationsUpTo: the endpoint returns the donations created up to upTo,
\* and their amounts are summed
FetchDonationsUpTo(upstream, upTo) ==
    [err |-> upstream.err,
     TotalDonationAmount |->
         SumAmounts({d \in upstream.donations : d.createdAt <= upTo})]

\* a comparison that wants more than the minimum amount
MeetsMinimum_Strict(total, donationAmount) == total > donationAmount

\* donations.TotalDonationAmount >= donationAmount
MeetsMinimum(total, donationAmount) == total >= donationAmount

WindowTransform == "onlyIfSelfDonatedDuringRegistrationWindow"

Continue(fields, fetched) ==
    [fields |-> fields, err |-> NilError, status |-> "continue", fetched |-> fetched]

ReturnError(fields, err, fetched) ==
    [fields |-> fields, err |-> err, status |-> "return", fetched |-> fetched]

Panic(fields) ==
    [fields |-> fields, err |-> NilError, status |-> "panic", fetched |-> FALSE]

\* case "onlyIfSelfDonatedDuringRegistrationWindow" of the switch
OnlyIfSelfDonatedDuringRegistrationWindow(fields, field, transform, arg, skip, upstream) ==
    IF skip THEN Continue(fields, FALSE)
    ELSE IF Len(arg) /= 2
    THEN ReturnError(fields, <<"invalid argument, expected two params", field>>, FALSE)
    ELSE IF ~Atoi(Chars(arg[1])).ok
    THEN ReturnError(fields, <<"invalid first param in argument", field>>, FALSE)
    ELSE IF ~ParseDuration(arg[2]).ok
    THEN ReturnError(fields, <<"invalid second param in argument", field>>, FALSE)
    ELSE LET donationAmount   == Atoi(Chars(arg[1])).val
             windowDuration   == ParseDuration(arg[2]).hours
             registrationDate == FieldValue(fields, RegistrationDateField)
         IN  IF IsString(registrationDate)
             THEN IF ~TimeParse(registrationDate).ok
                  THEN ReturnError(fields, <<"failed to parse", RegistrationDateField>>, FALSE)
                  ELSE IF ~IsString(FieldValue(fields, RegistrationIdField))
                  THEN Panic(fields)
                  ELSE LET donations ==
                               FetchDonationsUpTo(upstream,
                                   TimeParse(registrationDate).hour + windowDuration)
                       IN  IF donations.err
                           THEN ReturnError(fields,
                                    <<"failed to check self donation totals", field>>, TRUE)
                           ELSE IF MeetsMinimum(donations.TotalDonationAmount, donationAmount)
                           THEN Continue(fields, TRUE)
                           ELSE Continue(DeleteField(fields, field), TRUE)
             ELSE Continue(DeleteField(fields, field), FALSE)

\* one iteration of the range loop of ApplyFundraiserFieldTransforms
ApplyFundraiserFieldTransform(fields, field, transform, skip, upstream) ==
    IF ~FieldExists(fields, field)
    THEN ReturnError(fields, <<"invalid transform, field does not exist", field>>, FALSE)
    ELSE LET function   == transform[1]
             arg        == IF Len(transform) > 1 THEN transform[2] ELSE <<"">>
             fieldValue == FieldValue(fields, field)
         IN  CASE function = "blankIfDefault" ->
                    IF IsString(fieldValue) /\ IsDefault(arg, fieldValue)
                    THEN Continue(SetField(fields, field, ""), FALSE)
                    ELSE Continue(fields, FALSE)
               [] function = "onlyIfNotDefault" ->
                    IF IsString(fieldValue) /\ IsDefault(arg, fieldValue)
                    THEN Continue(DeleteField(fields, field), FALSE)
                    ELSE Continue(fields, FALSE)
               [] function = "warnIfEqual" -> Continue(fields, FALSE)
               [] function = WindowTransform ->
                    OnlyIfSelfDonatedDuringRegistrationWindow(fields, field, transform,
                                                              arg, skip, upstream)
               [] OTHER -> ReturnError(fields, <<"unsupported transform", field>>, FALSE)

\* HasSameOwnerAs: an error when either page has no owner
HasSameOwnerAs(pageOwner, otherOwner) ==
    IF pageOwner = "" THEN [err |-> <<"page is missing an owner", "">>, same |-> FALSE]
    ELSE IF otherOwner = ""
    THEN [err |-> <<"other page is missing an owner", "">>, same |-> FALSE]
    ELSE [err |-> NilError, same |-> pageOwner = otherOwner]

\* one iteration of the range loop of ApplyTeamFieldTransforms
ApplyTeamFieldTransform(fields, field, transform, captain, orgType) ==
    IF ~FieldExists(fields, field)
    THEN ReturnError(fields, <<"invalid transform, field does not exist", field>>, FALSE)
    ELSE LET function == transform[1]
         IN  CASE function = "isCaptain" ->
                    Continue(SetField(fields, field, IF captain THEN TrueValue ELSE FalseValue),
                             FALSE)
               [] function = "isMember" ->
                    Continue(SetField(fields, field, IF captain THEN FalseValue ELSE TrueValue),
                             FALSE)
               [] function = "onlyIfOrgTypeSchool" ->
                    IF orgType /= "school" THEN Continue(DeleteField(fields, field), FALSE)
                    ELSE Continue(fields, FALSE)
               [] OTHER -> ReturnError(fields, <<"unsupported transform", field>>, FALSE)

TeamMapper == tConfig.mapper = "MapTeamFundraisingPage"

\* result.Contacts = append(result.Contacts, contact), then the next member of
\* the team, or return result, nil
AppendAndNext(fields) ==
    /\ tResult' = Append(tResult, fields)
    /\ IF tIdx < Len(tBatch)
       THEN /\ tIdx' = tIdx + 1
            /\ tFields' = tBatch[tIdx + 1].fields
            /\ tPending' = DOMAIN tConfig.fundraiser
            /\ tPc' = "fundraiser"
       ELSE /\ tPc' = "returned"
            /\ UNCHANGED <<tIdx, tFields, tPending>>

\* the range loop of ApplyFundraiserFieldTransforms visits an entry of the
\* table; the order of a range over a map is not specified
FundraiserTransformStep(field) ==
    /\ tPc = "fundraiser"
    /\ field \in tPending
    /\ LET r == ApplyFundraiserFieldTransform(tFields, field, tConfig.fundraiser[field],
                                              tConfig.skip, tUpstream)
       IN  /\ tFields' = r.fields
           /\ tErr' = r.err
           /\ tFetches' = tFetches + (IF r.fetched THEN 1 ELSE 0)
           /\ tPending' = tPending \ {field}
           /\ tPc' = CASE r.status = "continue" -> "fundraiser"
                       [] r.status = "return" -> "returned"
                       [] OTHER -> "panicked"
    /\ UNCHANGED <<tConfig, tBatch, tIdx, tResult, tUpstream>>
    /\ UNCHANGED <<extVars, fanVars, cacheVars, streakVars, mappingVars, memberVars>>

\* ApplyFundraiserFieldTransforms returns nil: a fundraiser's contact is
\* appended and returned, a team member goes on to ApplyTeamFieldTransforms
\* (which returns at once when the owner check fails or its table is empty)
FundraiserTransformsDone ==
    /\ tPc = "fundraiser"
    /\ tPending = {}
    /\ IF ~TeamMapper THEN AppendAndNext(tFields) /\ UNCHANGED tErr
       ELSE IF Cardinality(DOMAIN tConfig.team) = 0
       THEN AppendAndNext(tFields) /\ UNCHANGED tErr
       ELSE IF HasSameOwnerAs(tBatch[tIdx].owner, tConfig.teamOwner).err /= NilError
       THEN /\ tErr' = HasSameOwnerAs(tBatch[tIdx].owner, tConfig.teamOwner).err
            /\ tPc' = "returned"
            /\ UNCHANGED <<tIdx, tFields, tPending, tResult>>
       ELSE /\ tPc' = "team"
            /\ tPending' = DOMAIN tConfig.team
            /\ UNCHANGED <<tIdx, tFields, tResult, tErr>>
    /\ UNCHANGED <<tConfig, tBatch, tUpstream, tFetches>>
    /\ UNCHANGED <<extVars, fanVars, cacheVars, streakVars, mappingVars, memberVars>>

\* the range loop of ApplyTeamFieldTransforms visits an entry of the table
TeamTransformStep(field) ==
    /\ tPc = "team"
    /\ field \in tPending
    /\ LET r == ApplyTeamFieldTransform(tFields, field, tConfig.team[field],
                    HasSameOwnerAs(tBatch[tIdx].owner, tConfig.teamOwner).same,
                    tConfig.orgType)
       IN  /\ tFields' = r.fields
           /\ tErr' = r.err
           /\ tPending' = tPending \ {field}
           /\ tPc' = IF r.status = "continue" THEN "team" ELSE "returned"
    /\ UNCHANGED <<tConfig, tBatch, tIdx, tResult, tUpstream, tFetches>>
    /\ UNCHANGED <<extVars, fanVars, cacheVars, streakVars, mappingVars, memberVars>>

\* ApplyTeamFieldTransforms returns nil: the member's contact is appended
TeamTransformsDone ==
    /\ tPc = "team"
    /\ tPending = {}
    /\ AppendAndNext(tFields)
    /\ UNCHANGED <<tConfig, tBatch, tErr, tUpstream, tFetches>>
    /\ UNCHANGED <<extVars, fanVars, cacheVars, streakVars, mappingVars, memberVars>>

(* Inputs *)

NoTransform == <<>>

Window(params) == <<WindowTransform, params>>

RewardTransforms ==
    { NoTransform, Window(<<"2", "24h">>), Window(<<"2">>), Window(<<"two", "24h">>),
      Window(<<"2", "soon">>), <<"bogus">>, <<"warnIfEqual", <<"reward">>>> }

RegistrationDateTransforms ==
    { NoTransform, <<"onlyIfNotDefault", <<"Registration Date">>>>,
      <<"blankIfDefault", <<"Registration Date">>>>, <<"bogus">> }

RegistrationIdTransforms ==
    { NoTransform, <<"onlyIfNotDefault", <<"Registration Id">>>> }

\* Config.FundraiserFieldTransforms: a map from field to transform
FundraiserTable(reward, date, id) ==
    LET t == [f \in {RewardField, RegistrationDateField, RegistrationIdField} |->
                 IF f = RewardField THEN reward
                 ELSE IF f = RegistrationDateField THEN date ELSE id]
    IN  [f \in {g \in DOMAIN t : t[g] /= NoTransform} |-> t[f]]

FundraiserTables ==
    { FundraiserTable(r, d, i) :
        r \in RewardTransforms, d \in RegistrationDateTransforms,
        i \in RegistrationIdTransforms }

\* the tables a team is mapped with
TeamFundraiserTables ==
    { FundraiserTable(r, NoTransform, NoTransform) :
        r \in { NoTransform, Window(<<"2", "24h">>), <<"bogus">> } }

\* Config.TeamFieldTransforms
TeamTables ==
    { <<>> } \cup
    { [f \in {CaptainField} |-> t] :
        t \in { <<"isCaptain">>, <<"isMember">>, <<"onlyIfOrgTypeSchool">>, <<"bogus">> } }

Absent == "<absent>"

\* the fields of a record after the mapping tables were applied
RecordFields(reward, date, id, captain) ==
    LET t == [f \in {RewardField, RegistrationDateField, RegistrationIdField, CaptainField} |->
                 IF f = RewardField THEN reward
                 ELSE IF f = RegistrationDateField THEN date
                 ELSE IF f = RegistrationIdField THEN id ELSE captain]
    IN  [f \in {g \in DOMAIN t : t[g] /= Absent} |-> t[f]]

Records ==
    { [fields |-> RecordFields(r, d, i, Absent), owner |-> "member"] :
        r \in {Absent, "reward"},
        d \in {Absent, NilValue, RegistrationDate, DefaultRegistrationDate, "yesterday"},
        i \in {Absent, NilValue, "id", DefaultRegistrationId} }

\* the members of a team: the captain, a member, a member whose page has no
\* owner, and a member whose record lacks the transformed fields
TeamRecords ==
    { [fields |-> RecordFields("reward", RegistrationDate, "id", NilValue), owner |-> o] :
        o \in {"captain", "member", ""} }
    \cup
    { [fields |-> RecordFields(Absent, RegistrationDate, "id", Absent), owner |-> "member"] }

Upstreams ==
    { [err |-> TRUE, donations |-> {}] }
    \cup
    { [err |-> FALSE, donations |-> D] :
        D \in { {},
                {[id |-> 1, createdAt |-> 1, amount |-> MinAmount - 1]},
                {[id |-> 1, createdAt |-> 1, amount |-> MinAmount - 1],
                 [id |-> 2, createdAt |-> 2, amount |-> 1]},
                {[id |-> 1, createdAt |-> 1, amount |-> MinAmount - 1],
                 [id |-> 2, createdAt |-> 30, amount |-> MinAmount]} } }

HasWindow(table) == \E f \in DOMAIN table : table[f][1] = WindowTransform

\* the donations endpoint and the skip mode matter to the window transform only
UpstreamsFor(table) ==
    IF HasWindow(table) THEN Upstreams ELSE { [err |-> FALSE, donations |-> {}] }

SkipModesFor(table) == IF HasWindow(table) THEN BOOLEAN ELSE {FALSE}

TransformInit ==
    /\ \/ /\ \E table \in FundraiserTables, skip \in BOOLEAN :
                /\ skip \in SkipModesFor(table)
                /\ tConfig = [mapper |-> "MapFundraisingPage", fundraiser |-> table,
                              team |-> <<>>, skip |-> skip, teamOwner |-> "",
                              orgType |-> ""]
          /\ \E r \in Records : tBatch = <<r>>
       \/ /\ \E table \in TeamFundraiserTables, teamTable \in TeamTables,
                o \in {"captain", ""}, org \in {"school", "club"} :
                /\ (Cardinality(DOMAIN teamTable) = 0 => (o = "captain" /\ org = "club"))
                /\ tConfig = [mapper |-> "MapTeamFundraisingPage", fundraiser |-> table,
                              team |-> teamTable, skip |-> FALSE, teamOwner |-> o,
                              orgType |-> org]
          /\ \E n \in 1..MaxBatch : tBatch \in [1..n -> TeamRecords]
    /\ tUpstream \in UpstreamsFor(tConfig.fundraiser)
    /\ tPc = "fundraiser"
    /\ tIdx = 1
    /\ tFields = tBatch[1].fields
    /\ tPending = DOMAIN tConfig.fundraiser
    /\ tResult = <<>>
    /\ tErr = NilError
    /\ tFetches = 0

AllTransformFields == {RewardField, RegistrationDateField, RegistrationIdField, CaptainField}

TransformNext ==
    \/ \E field \in AllTransformFields : FundraiserTransformStep(field)
    \/ FundraiserTransformsDone
    \/ \E field \in AllTransformFields : TeamTransformStep(field)
    \/ TeamTransformsDone

InitTransform == TransformInit /\ ExtIdle /\ FanIdle /\ CacheIdle /\ StreakIdle /\ MappingIdle /\ MembersIdle

SpecTransform == InitTransform /\ [][TransformNext]_vars

-----------------------------------------------------------------------------
(* Properties of the field transforms *)

Returned == tPc = "returned"

\* the records the mapper has started to process
Processed == 1..tIdx

\* C23: a transform configured for a field that the record does not have
\* yields an error: the mapper never returns without error when a record it
\* processed lacks a field of the fundraiser table or, for a team, of the team
\* table.
C23_TransformedFieldMustExist ==
    (Returned /\ tErr = NilError) =>
        \A i \in 1..Len(tBatch) :
            /\ \A f \in DOMAIN tConfig.fundraiser : f \in DOMAIN tBatch[i].fields
            /\ TeamMapper => \A f \in DOMAIN tConfig.team : f \in DOMAIN tBatch[i].fields

\* the loop returned the error for a field that the record lacks
C23_Witness ==
    /\ Returned
    /\ RewardField \in DOMAIN tConfig.fundraiser
    /\ RewardField \notin DOMAIN tBatch[tIdx].fields
    /\ tErr = <<"invalid transform, field does not exist", RewardField>>

\* C24: an unknown transform function fails the record being processed only:
\* when the mapper returns that error for a member of a team, the other
\* members of the team have been processed as well.
C24_UnknownFunctionFailsRecordOnly ==
    (Returned /\ tErr /= NilError /\ tErr[1] = "unsupported transform") =>
        tIdx = Len(tBatch)

\* the total of the donations created within the registration window
WindowTotal ==
    SumAmounts({d \in tUpstream.donations : d.createdAt <= ParseDuration("24h").hours})

\* the range loop visits the donation-window transform of a field that exists
WindowStep(f) ==
    /\ tPc = "fundraiser"
    /\ f \in tPending
    /\ f \in DOMAIN tFields
    /\ tConfig.fundraiser[f][1] = WindowTransform
    /\ FundraiserTransformStep(f)

C26_NoPanicWhileProcessing == tPc /= "panicked"

\* the transform table applied to the record in a given order
RECURSIVE TransformInOrder(_, _)
TransformInOrder(order, fields) ==
    IF order = <<>> THEN [fields |-> fields, err |-> NilError, status |-> "returned"]
    ELSE LET r == ApplyFundraiserFieldTransform(fields, Head(order),
                      tConfig.fundraiser[Head(order)], tConfig.skip, tUpstream)
         IN  IF r.status = "continue" THEN TransformInOrder(Tail(order), r.fields)
             ELSE [fields |-> r.fields, err |-> r.err,
                   status |-> IF r.status = "return" THEN "returned" ELSE "panicked"]

Orders(S) ==
    {o \in [1..Cardinality(S) -> S] : \A i, j \in 1..Cardinality(S) : o[i] = o[j] => i = j}

\* C29: the outcome of ApplyFundraiserFieldTransforms (the fields kept, changed
\* or deleted and the error returned) is the same for every iteration order
\* over the transform table: whatever order the loop took, each other order
\* over the same table ends with the same fields and the same error.
C29_OutcomeIndependentOfOrder ==
    (~TeamMapper /\ tPc \in {"returned", "panicked"}) =>
        \A order \in Orders(DOMAIN tConfig.fundraiser) :
            TransformInOrder(order, tBatch[1].fields) =
                [fields |-> tFields, err |-> tErr, status |-> tPc]

-----------------------------------------------------------------------------
(* The field mappings: Config.FundraiserFieldMappings is read from YAML, its   *)
(* keys are expanded to target field identifiers, and MapFundraiserFields maps *)
(* a source document to the fields of a destination record.                    *)
(* Go strings that the code indexes (paths, source values) are sequences of    *)
(* characters; field identifiers, which are only concatenated and compared,    *)
(* are strings.                                                                *)

\* the entries of one configuration, Builtin and Custom together
MaxEntries == 2

\* FieldMappings: the collections in the order MapFields and AllKeys visit them
Collections == <<"Strings", "Texts", "Decimals", "Booleans", "Timestamps",
                 "Phones", "Geos", "Integers">>

SimpleCollections == {"Strings", "Texts", "Decimals", "Booleans", "Timestamps", "Integers"}

NestedCollections == {"Phones", "Geos"}

\* a nil map: ranging over it visits nothing
NilMap == <<>>

\* expandSimpleFieldType: the kind each simple field type is written with
SimplePrefix(fieldType) ==
    CASE fieldType = "Strings"    -> "str:"
      [] fieldType = "Texts"      -> "txt:"
      [] fieldType \in {"Decimals", "Integers"} -> "int:"
      [] fieldType = "Booleans"   -> "bol:"
      [] fieldType = "Timestamps" -> "tme:"

NestedPrefix(fieldType) ==
    CASE fieldType = "Phones" -> "phn:"
      [] fieldType = "Geos"   -> "geo:"

\* s := ":" + k; if custom { s = "cm" + s }; s = prefix + s
ExpandKey(prefix, k, custom) ==
    LET s == ":" \o k
    IN  prefix \o (IF custom THEN "cm" \o s ELSE s)

\* result[s] = v for k, v := range fieldMappings
ExpandMap(prefix, fieldMappings, custom) ==
    LET keys == {ExpandKey(prefix, k, custom) : k \in DOMAIN fieldMappings}
    IN  [s \in keys |->
            fieldMappings[CHOOSE k \in DOMAIN fieldMappings :
                              ExpandKey(prefix, k, custom) = s]]

expandSimpleFieldType(fieldType, fieldMappings, custom) ==
    ExpandMap(SimplePrefix(fieldType), fieldMappings, custom)

expandNestedFieldType(fieldType, fieldMappings, custom) ==
    ExpandMap(NestedPrefix(fieldType), fieldMappings, custom)

ExpandFieldMappings(mappings, custom) ==
    [c \in DOMAIN mappings |->
        IF c \in SimpleCollections
        THEN expandSimpleFieldType(c, mappings[c], custom)
        ELSE expandNestedFieldType(c, mappings[c], custom)]

\* FieldMapsKeys / NestedFieldMapsKeys: the keys of one collection, in some order
RECURSIVE FieldMapsKeys(_)
FieldMapsKeys(m) ==
    IF DOMAIN m = {} THEN <<>>
    ELSE LET k == CHOOSE x \in DOMAIN m : TRUE
         IN  <<k>> \o FieldMapsKeys([x \in DOMAIN m \ {k} |-> m[x]])

RECURSIVE AllKeysFrom(_, _)
AllKeysFrom(m, i) ==
    IF i > Len(Collections) THEN <<>>
    ELSE FieldMapsKeys(m[Collections[i]]) \o AllKeysFrom(m, i + 1)

\* FieldMappings.AllKeys
AllKeys(m) == AllKeysFrom(m, 1)

(* The source document *)

JMissing == <<"missing">>

JNull == <<"null">>

JTrue == <<"true">>

JString(str) == <<"string", str>>

JNumber(n) == <<"number", n>>

\* gjson Result.Exists() && Result.Value() != nil
Resolved(result) == result /= JMissing /\ result /= JNull

\* s.data.Get(path)
Get(data, path) == IF path \in DOMAIN data THEN data[path] ELSE JMissing

\* gjson Result.String()
ResultString(result) ==
    CASE result[1] = "string" -> result[2]
      [] result[1] = "number" -> Itoa(result[2])
      [] result[1] = "true"   -> <<"t", "r", "u", "e">>
      [] OTHER                -> <<>>

\* gjson Result.Int(): a string is parsed, and reads as 0 when it is no number
ResultInt(result) ==
    CASE result[1] = "number" -> result[2]
      [] result[1] = "true"   -> 1
      [] result[1] = "string" -> IF result[2] /= <<>> /\ \A i \in 1..Len(result[2]) : IsDigit(result[2][i])
                                 THEN DigitsValue(result[2]) ELSE 0
      [] OTHER                -> 0

\* gjson Result.Bool()
ResultBool(result) ==
    CASE result[1] = "true"   -> TRUE
      [] result[1] = "number" -> result[2] /= 0
      [] result[1] = "string" -> result[2] \in {<<"1">>, <<"t">>, <<"t", "r", "u", "e">>}
      [] OTHER                -> FALSE

\* the values a destination field holds
GoNil == <<"nil">>

GoString(str) == <<"string", str>>

GoInt(n) == <<"int64", n>>

GoBool(b) == <<"bool", b>>

GoObject(o) == <<"map", o>>

\* Source.StringForPath, IntForPath, BoolForPath: the value and whether it exists
SourceStringForPath(data, path) ==
    [value |-> GoString(ResultString(Get(data, path))), exists |-> Resolved(Get(data, path))]

SourceIntForPath(data, path) ==
    [value |-> GoInt(ResultInt(Get(data, path))), exists |-> Resolved(Get(data, path))]

SourceBoolForPath(data, path) ==
    [value |-> GoBool(ResultBool(Get(data, path))), exists |-> Resolved(Get(data, path))]

\* the backtick character
Backtick == "BACKTICK"

\* a constant value: the path is escaped in backticks
IsStatic(path) == Len(path) >= 2 /\ path[1] = Backtick /\ path[Len(path)] = Backtick

\* if result, exists := ...; exists { SetField(field, result) } else { SetField(field, nil) }
SetOrNil(fields, field, result) ==
    IF result.exists THEN SetField(fields, field, result.value)
    ELSE SetField(fields, field, GoNil)

\* the value MapFields sets for one entry of a simple collection
MapSimple(c, fields, field, path, data) ==
    CASE c = "Strings" ->
            IF IsStatic(path)
            THEN SetField(fields, field, GoString(SubSeq(path, 2, Len(path) - 1)))
            ELSE SetOrNil(fields, field, SourceStringForPath(data, path))
      [] c \in {"Texts", "Timestamps"} ->
            SetOrNil(fields, field, SourceStringForPath(data, path))
      [] c \in {"Decimals", "Integers"} ->
            SetOrNil(fields, field, SourceIntForPath(data, path))
      [] c = "Booleans" ->
            SetOrNil(fields, field, SourceBoolForPath(data, path))

\* phoneObject / geoObject: every component read as a string, "" when unresolved
MapNested(fields, field, v, data) ==
    LET object == [component \in DOMAIN v |-> ResultString(Get(data, v[component]))]
        isEmptyObject == \A component \in DOMAIN v : object[component] = <<>>
    IN  IF isEmptyObject THEN SetField(fields, field, GoNil)
        ELSE SetField(fields, field, GoObject(object))

\* for field, path := range collection: the keys of one map are distinct, so the
\* order of the visits does not change what is set
RECURSIVE MapCollection(_, _, _, _)
MapCollection(c, collection, data, fields) ==
    IF DOMAIN collection = {} THEN fields
    ELSE LET field == CHOOSE f \in DOMAIN collection : TRUE
             rest  == [f \in DOMAIN collection \ {field} |-> collection[f]]
             set   == IF c \in NestedCollections
                      THEN MapNested(fields, field, collection[field], data)
                      ELSE MapSimple(c, fields, field, collection[field], data)
         IN  MapCollection(c, rest, data, set)

RECURSIVE MapFieldsFrom(_, _, _, _)
MapFieldsFrom(mappings, data, fields, i) ==
    IF i > Len(Collections) THEN fields
    ELSE MapFieldsFrom(mappings, data,
                       MapCollection(Collections[i], mappings[Collections[i]], data, fields),
                       i + 1)

\* MapFields(mappings, source, destination)
MapFields(mappings, data, fields) == MapFieldsFrom(mappings, data, fields, 1)

(* Inputs *)

PathP == <<"p">>

PathQ == <<"q">>

StaticPath == <<Backtick, "c", Backtick>>

YamlNames == {"total"}

NestedPaths == {[number |-> PathP], [number |-> PathP, code |-> PathQ]}

\* the entries of the YAML: table, collection, key and path (or paths)
SimpleEntries ==
    { [custom |-> b, collection |-> c, key |-> k, path |-> path] :
        b \in BOOLEAN, c \in SimpleCollections, k \in YamlNames, path \in {PathP, PathQ} }
    \cup
    { [custom |-> b, collection |-> "Strings", key |-> k, path |-> StaticPath] :
        b \in BOOLEAN, k \in YamlNames }

NestedEntries ==
    { [custom |-> b, collection |-> c, key |-> k, path |-> path] :
        b \in BOOLEAN, c \in NestedCollections, k \in YamlNames, path \in NestedPaths }

RECURSIVE EntrySetsUpTo(_, _)
EntrySetsUpTo(entries, n) ==
    IF n = 0 THEN {{}}
    ELSE LET smaller == EntrySetsUpTo(entries, n - 1)
         IN  smaller \cup { es \cup {e} : es \in smaller, e \in entries }

\* a YAML map holds a key once
KeysOnce(es) ==
    \A e1, e2 \in es :
        (e1.custom = e2.custom /\ e1.collection = e2.collection /\ e1.key = e2.key)
            => e1 = e2

\* the FieldMappings the entries populate
Populate(simple, nested, custom) ==
    [c \in SimpleCollections \cup NestedCollections |->
        LET mine == {e \in (IF c \in SimpleCollections THEN simple ELSE nested) :
                        e.custom = custom /\ e.collection = c}
        IN  [k \in {e.key : e \in mine} |-> (CHOOSE e \in mine : e.key = k).path]]

SimpleEntrySets == {x \in EntrySetsUpTo(SimpleEntries, MaxEntries) : KeysOnce(x)}

NestedEntrySets == {x \in EntrySetsUpTo(NestedEntries, MaxEntries) : KeysOnce(x)}

\* the configurations of at most MaxEntries entries
YamlConfigs ==
    { [Builtin |-> Populate(es[1], es[2], FALSE), Custom |-> Populate(es[1], es[2], TRUE)] :
        es \in { x \in SimpleEntrySets \X NestedEntrySets :
                    Cardinality(x[1]) + Cardinality(x[2]) <= MaxEntries } }

SourceDocuments ==
    { [path \in present |-> IF path = PathP THEN p ELSE q] :
        present \in SUBSET {PathP, PathQ},
        p \in {JNull, JString(<<>>), JString(<<"x">>), JNumber(7), JTrue},
        q \in {JNumber(7)} }

MappingInit ==
    /\ mapPc = "read"
    /\ mappingConfig \in YamlConfigs
    /\ mapSource \in SourceDocuments
    /\ mapDestination = <<>>

\* YAMLConfigUnmarshaler.Unmarshal: the keys of the tables are expanded
Unmarshal ==
    /\ mapPc = "read"
    /\ mappingConfig' = [Builtin |-> ExpandFieldMappings(mappingConfig.Builtin, FALSE),
                         Custom  |-> ExpandFieldMappings(mappingConfig.Custom, TRUE)]
    /\ mapPc' = "configured"
    /\ UNCHANGED <<mapSource, mapDestination>>
    /\ UNCHANGED <<extVars, fanVars, cacheVars, streakVars, transformVars, memberVars>>

\* RaiselyMapper.MapFundraiserFields
MapFundraiserFields ==
    /\ mapPc = "configured"
    /\ mapDestination' = MapFields(mappingConfig.Custom, mapSource,
                             MapFields(mappingConfig.Builtin, mapSource, mapDestination))
    /\ mapPc' = "mapped"
    /\ UNCHANGED <<mappingConfig, mapSource>>
    /\ UNCHANGED <<extVars, fanVars, cacheVars, streakVars, transformVars, memberVars>>

MappingNext == Unmarshal \/ MapFundraiserFields

InitMapping == MappingInit /\ ExtIdle /\ FanIdle /\ CacheIdle /\ StreakIdle /\ TransformIdle /\ MembersIdle

SpecMapping == InitMapping /\ [][MappingNext]_vars

-----------------------------------------------------------------------------
(* The pages of a team's members: FetchTeamMembers gives every goroutine the   *)
(* index of its member and lets it write pages[index]; the team mapper of      *)
(* OrttoMapper lets every goroutine append to one slice.                       *)

MemberFanOuts == {"FetchTeamMembers", "OrttoMapper.MapTeamFundraisingPage"}

\* the zero FundraisingPage
ZeroPage == <<"page", 0>>

\* the page the upstream holds for a member
PageOf(memberP2PID) == <<"page", memberP2PID>>

\* the rosters: members 1..n in roster order
Rosters == {[i \in 1..n |-> i] : n \in 0..MaxMembers}

MemberIndexes == 1..Len(teamMembers)

MembersInit ==
    /\ membersImpl \in MemberFanOuts
    /\ teamMembers \in Rosters
    /\ membersMain = "launch"
    /\ membersWg = 0
    /\ memberPc = [i \in MemberIndexes |-> "unstarted"]
    /\ memberPage = [i \in MemberIndexes |-> ZeroPage]
    /\ memberLocal = [i \in MemberIndexes |-> <<>>]
    \* pages := make([]FundraisingPage, len(team.TeamMembers)), or a nil slice
    /\ pages = IF membersImpl = "FetchTeamMembers"
               THEN [i \in MemberIndexes |-> ZeroPage] ELSE <<>>
    /\ memberErrs = IF membersImpl = "FetchTeamMembers"
                    THEN [i \in MemberIndexes |-> NilError] ELSE <<>>
    /\ membersRet = <<>>

\* wg.Add(1); go func(...) for the next member of the range loop
MemberLaunch(index) ==
    /\ membersMain = "launch"
    /\ index \in MemberIndexes
    /\ memberPc[index] = "unstarted"
    /\ \A j \in 1..(index - 1) : memberPc[j] /= "unstarted"
    /\ membersWg' = membersWg + 1
    /\ memberPc' = [memberPc EXCEPT ![index] = "fetching"]
    /\ membersMain' = IF index = Len(teamMembers) THEN "wait" ELSE "launch"
    /\ UNCHANGED <<membersImpl, teamMembers, memberPage, memberLocal, pages, memberErrs,
                   membersRet>>
    /\ UNCHANGED <<extVars, fanVars, cacheVars, streakVars, transformVars, mappingVars>>

\* the member's page is fetched. FetchTeamMembers:
\*   errs[index] = pages[index].fetchRaiselyData(...)
\* OrttoMapper: var p FundraisingPage; err := p.FetchRaiselyData(...)
MemberFetch(index, outcome) ==
    /\ index \in MemberIndexes
    /\ memberPc[index] = "fetching"
    /\ outcome \in {"ok", "fail"}
    /\ LET p == IF outcome = "ok" THEN PageOf(teamMembers[index]) ELSE ZeroPage
       IN  /\ memberPage' = [memberPage EXCEPT ![index] = p]
           /\ IF membersImpl = "FetchTeamMembers"
              THEN /\ pages' = [pages EXCEPT ![index] = p]
                   /\ memberErrs' = [memberErrs EXCEPT ![index] =
                                        IF outcome = "ok" THEN NilError ELSE <<index>>]
                   /\ memberPc' = [memberPc EXCEPT ![index] = "fetched"]
              ELSE /\ UNCHANGED <<pages, memberErrs>>
                   /\ memberPc' = [memberPc EXCEPT ![index] =
                                      IF outcome = "ok" THEN "pages_read" ELSE "errors_read"]
    /\ UNCHANGED <<membersImpl, teamMembers, membersMain, membersWg, memberLocal, membersRet>>
    /\ UNCHANGED <<extVars, fanVars, cacheVars, streakVars, transformVars, mappingVars>>

\* errors = append(errors, err), unsynchronized: the slice is read ...
MemberErrorsRead(index) ==
    /\ index \in MemberIndexes
    /\ memberPc[index] = "errors_read"
    /\ memberLocal' = [memberLocal EXCEPT ![index] = memberErrs]
    /\ memberPc' = [memberPc EXCEPT ![index] = "errors_write"]
    /\ UNCHANGED <<membersImpl, teamMembers, membersMain, membersWg, memberPage, pages,
                   memberErrs, membersRet>>
    /\ UNCHANGED <<extVars, fanVars, cacheVars, streakVars, transformVars, mappingVars>>

\* ... and the grown slice is written back
MemberErrorsWrite(index) ==
    /\ index \in MemberIndexes
    /\ memberPc[index] = "errors_write"
    /\ memberErrs' = Append(memberLocal[index], <<index>>)
    /\ memberPc' = [memberPc EXCEPT ![index] = "pages_read"]
    /\ UNCHANGED <<membersImpl, teamMembers, membersMain, membersWg, memberPage, memberLocal,
                   pages, membersRet>>
    /\ UNCHANGED <<extVars, fanVars, cacheVars, streakVars, transformVars, mappingVars>>

\* teamMemberFundraisingPages = append(teamMemberFundraisingPages, p),
\* unsynchronized: the slice is read ...
MemberPagesRead(index) ==
    /\ index \in MemberIndexes
    /\ memberPc[index] = "pages_read"
    /\ memberLocal' = [memberLocal EXCEPT ![index] = pages]
    /\ memberPc' = [memberPc EXCEPT ![index] = "pages_write"]
    /\ UNCHANGED <<membersImpl, teamMembers, membersMain, membersWg, memberPage, pages,
                   memberErrs, membersRet>>
    /\ UNCHANGED <<extVars, fanVars, cacheVars, streakVars, transformVars, mappingVars>>

\* ... and the grown slice is written back
MemberPagesWrite(index) ==
    /\ index \in MemberIndexes
    /\ memberPc[index] = "pages_write"
    /\ pages' = Append(memberLocal[index], memberPage[index])
    /\ memberPc' = [memberPc EXCEPT ![index] = "fetched"]
    /\ UNCHANGED <<membersImpl, teamMembers, membersMain, membersWg, memberPage, memberLocal,
                   memberErrs, membersRet>>
    /\ UNCHANGED <<extVars, fanVars, cacheVars, streakVars, transformVars, mappingVars>>

\* wg.Done()
MemberDone(index) ==
    /\ index \in MemberIndexes
    /\ memberPc[index] = "fetched"
    /\ membersWg' = membersWg - 1
    /\ memberPc' = [memberPc EXCEPT ![index] = "done"]
    /\ UNCHANGED <<membersImpl, teamMembers, membersMain, memberPage, memberLocal, pages,
                   memberErrs, membersRet>>
    /\ UNCHANGED <<extVars, fanVars, cacheVars, streakVars, transformVars, mappingVars>>

\* wg.Wait() returns and the pages go to the caller: FetchTeamMembers returns
\* pages and the joined errors, OrttoMapper maps the pages when there is no error
MembersWaitAndReturn ==
    /\ membersMain = "wait"
    /\ membersWg = 0
    /\ membersRet' = IF membersImpl = "FetchTeamMembers"
                     THEN [pages |-> pages, err |-> ErrorsJoin(memberErrs)]
                     ELSE IF Len(memberErrs) > 0
                     THEN [pages |-> <<>>, err |-> memberErrs]
                     ELSE [pages |-> pages, err |-> NilError]
    /\ membersMain' = "returned"
    /\ UNCHANGED <<membersImpl, teamMembers, membersWg, memberPc, memberPage, memberLocal,
                   pages, memberErrs>>
    /\ UNCHANGED <<extVars, fanVars, cacheVars, streakVars, transformVars, mappingVars>>

\* a team without members: no goroutine is started
MembersReturnNone ==
    /\ membersMain = "launch"
    /\ Len(teamMembers) = 0
    /\ membersRet' = [pages |-> <<>>, err |-> NilError]
    /\ membersMain' = "returned"
    /\ UNCHANGED <<membersImpl, teamMembers, membersWg, memberPc, memberPage, memberLocal,
                   pages, memberErrs>>
    /\ UNCHANGED <<extVars, fanVars, cacheVars, streakVars, transformVars, mappingVars>>

MembersNext ==
    \/ \E index \in 1..MaxMembers : MemberLaunch(index)
    \/ \E index \in 1..MaxMembers, outcome \in {"ok", "fail"} : MemberFetch(index, outcome)
    \/ \E index \in 1..MaxMembers : MemberErrorsRead(index)
    \/ \E index \in 1..MaxMembers : MemberErrorsWrite(index)
    \/ \E index \in 1..MaxMembers : MemberPagesRead(index)
    \/ \E index \in 1..MaxMembers : MemberPagesWrite(index)
    \/ \E index \in 1..MaxMembers : MemberDone(index)
    \/ MembersWaitAndReturn
    \/ MembersReturnNone

InitMembers == MembersInit /\ ExtIdle /\ FanIdle /\ CacheIdle /\ StreakIdle /\ TransformIdle /\ MappingIdle

SpecMembers == InitMembers /\ [][MembersNext]_vars

(* Properties of the pages of a team's members *)

MembersReturned == membersMain = "returned"

\* C30: when the fan-out over the members returns without error, the pages it
\* hands over are exactly the members' pages, one per member, the page of the
\* i-th member of the roster at position i.
C30_OnePagePerMemberInRosterOrder ==
    (MembersReturned /\ membersRet.err = NilError) =>
        /\ Len(membersRet.pages) = Len(teamMembers)
        /\ \A i \in MemberIndexes : membersRet.pages[i] = PageOf(teamMembers[i])

(* Properties of the field mappings *)

Mapped == mapPc = "mapped"

Tables == {mappingConfig.Builtin, mappingConfig.Custom}

\* the path of an entry does not resolve in the source document
Unresolved(c, path) ==
    IF c \in NestedCollections
    THEN \A component \in DOMAIN path : ~Resolved(Get(mapSource, path[component]))
    ELSE ~(c = "Strings" /\ IsStatic(path)) /\ ~Resolved(Get(mapSource, path))

\* C27: after mapping, every target field of the tables is in the record, and a
\* target field whose path is missing or null in the source document holds the
\* null marker.
C27_UnresolvedFieldIsNull ==
    Mapped =>
        \A table \in Tables : \A c \in DOMAIN table : \A field \in DOMAIN table[c] :
            /\ field \in DOMAIN mapDestination
            /\ Unresolved(c, table[c][field]) => mapDestination[field] = GoNil

\* the identifiers of the fundraiser: AllKeys of the builtin and of the custom table
FundraiserKeys == AllKeys(mappingConfig.Builtin) \o AllKeys(mappingConfig.Custom)

\* C28: once the tables are expanded, no target field identifier appears in more
\* than one collection of the builtin and custom tables of the fundraiser.
C28_IdentifierInOneCollection ==
    mapPc \in {"configured", "mapped"} =>
        \A i, j \in 1..Len(FundraiserKeys) :
            FundraiserKeys[i] = FundraiserKeys[j] => i = j

====
